---- MODULE Spec2Model ----
(***************************************************************************)
(* Evolve-UI: the streamed chat pipeline of POST /api/chat and the search  *)
(* continuation heuristic, modelled from the enhanced server.              *)
(***************************************************************************)
EXTENDS Integers, Sequences, FiniteSets, TLC

-----------------------------------------------------------------------------
(* Bounds of the model *)

\* thinking blocks in one reply of the generation backend
MaxThoughts == 1
\* lines with content the generation backend streams during one request
MaxLines == 1
\* distinct pages the search backend knows
NSites == 2
\* backend failures in one request
MaxFaults == 1
\* largest result count handed to shouldContinueSearching in FnSpec
MaxCount == 12
\* candidates in one call of upsertLongTermMemory
MaxBatch == 2
\* candidates handed to upsertLongTermMemory, over all its calls
MaxIds == 2
\* largest k handed to retrieveLongTermMemory
MaxK == 2
\* lines of a reply to the query-generation prompt, outside its thinking blocks
MaxReplyLines == 2
\* results in one answer of the search backend to webSearch on its own
MaxRaw == 2
\* ticks of the clock a timeout of a backend operation lasts
MaxWait == 2
\* session ids in use
MaxSessions == 2

\* queries in a plan handed to executeSearches
MaxPlan == 2

\* words in a user query
MaxWords == 2

(* Program constants *)

MaxQueries == 3
SearchCount == 8
TopResults == 6
MinContentLength == 300

\* characters fetchAndClean returns at most: part_003, server.js
MaxContentLength == 20000
MaxContentLengthBasic == 15000

-----------------------------------------------------------------------------
VARIABLES
  pc,               \* position of the request in the handler
  req,              \* the request body: autoSearch, fileContent, useMemory
  style,            \* thinking blocks in each reply of the generation backend
  session,          \* the persisted session document
  events,           \* events passed to sendSSE, in order
  allThoughts,
  sources,
  usedSearch,
  memoryAdded,
  searchQueries,
  finalAnswer,
  allSearchResults,
  searchRound,
  continueLog,      \* the continueDecision of every round that took one
  searchDecision,   \* the result of determineSearchNeed, needsSearch false at first
  contentResults,   \* length of the text fetched for each of the top results
  streamed,         \* what the lines of the chat streams held, in order
  failed,           \* the backend calls of this request that failed
  clock,            \* Date.now()
  fnIn,             \* the arguments of a function called on its own, if any
  fnOut,            \* its result, once it has returned
  memoryFile,       \* the content of memory.json: longTerm and nextId
  upserts,          \* the calls of upsertLongTermMemory in progress, by caller
  idLog,            \* every id given to a memory item so far, in order
  memFailed,        \* failed embedding calls and file operations so far
  submitted,        \* candidates handed to upsertLongTermMemory so far
  netCall,          \* a backend operation observed on its own, if any
  sessionsDir,      \* the session files, by session id
  httpResponse,     \* the last answer of the sessions and chat endpoints
  deletedIds,       \* the session ids DELETE has removed
  apiFaults,        \* failed file operations behind these endpoints so far
  clientGone        \* the client of the streamed request has disconnected

pipeVars == <<pc, req, style, session, events, allThoughts, sources,
              usedSearch, memoryAdded, searchQueries, finalAnswer,
              allSearchResults, searchRound, continueLog, searchDecision,
              contentResults, streamed, failed,
              clock>>
fnVars == <<fnIn, fnOut>>
memVars == <<memoryFile, upserts, idLog, memFailed, submitted>>
\* the state outside the chat request
sessVars == <<sessionsDir, httpResponse, deletedIds, apiFaults>>
apiVars == <<netCall, sessVars, clientGone>>
offVars == <<fnVars, memVars, apiVars>>
vars == <<pipeVars, offVars>>

-----------------------------------------------------------------------------
(* Helpers *)

Min(a, b) == IF a < b THEN a ELSE b

Take(s, n) == SubSeq(s, 1, Min(n, Len(s)))

Last(s) == s[Len(s)]


-----------------------------------------------------------------------------
(* Replies of the external services *)

\* A line of text outside the thinking blocks of a reply. kind: "numbered"
\* (digits, a dot, then text), "bullet" (a bullet, then text), "bare" (digits
\* and a dot alone), "plain" (any other text), "blank" (white space only).
\* text: what follows the marker, or the whole of a bare or plain line.
Line(kind, text) == [kind |-> kind, text |-> text]

\* the reply that lists n queries under the numbers of the prompt
NumberedLines(n) == [i \in 1..n |-> Line("numbered", "query " \o ToString(i))]

\* A reply of the generation backend to ollamaGenerate: the call failed or
\* timed out (ok = FALSE), or it returned text holding `blocks` non-empty
\* <thinking> blocks, `items` numbered lines, and (affirm) one of the tokens
\* yes / search / web / current outside the blocks. lines: the text outside
\* the blocks.
GenReply(ok, blocks, items, affirm) ==
  [ok |-> ok, blocks |-> blocks, items |-> items, affirm |-> affirm,
   lines |-> NumberedLines(items)]

\* a reply given by the lines of its text
TextReply(blocks, lines) ==
  [ok |-> TRUE, blocks |-> blocks, items |-> 0, affirm |-> FALSE,
   lines |-> lines]

FailedReply == GenReply(FALSE, 0, 0, FALSE)

\* stands for the reply where the backend is not called
NoReply == GenReply(TRUE, 0, 0, FALSE)

\* A URL: scheme "http" when it starts with http, "ftp" when it does not,
\* "none" for the url field a result lacks.
Url(site, upper, scheme) == [site |-> site, upper |-> upper, scheme |-> scheme]

\* An entry of json.results. title: "text", " " (white space only) or ""
\* (empty or missing).
RawResult(url, title) == [url |-> url, title |-> title]

\* the i-th ranked result of the search backend; pages come back under URLs
\* that differ in letter case only once the sites are exhausted
Page(i) ==
  RawResult(Url(((i - 1) % NSites) + 1, (((i - 1) \div NSites) % 2 = 1), "http"),
            "text")

Catalog(n) == [i \in 1..n |-> Page(i)]

\* result counts the search backend answers with
BackendSizes == {0, 2, 5}

\* numbered lines in a reply to the query-generation prompt
ReplyItems == {0, MaxQueries + 1}

\* lengths of the text fetchAndClean extracts from a page (0: the fetch failed)
ContentLens == {0, MinContentLength, MinContentLength + 1}

\* the pages as the fetches find them: all alike, or the first page apart
PageLengths ==
  { [s \in 1..NSites |-> l] : l \in ContentLens }
    \cup { [s \in 1..NSites |-> IF s = 1 THEN MinContentLength + 1
                                 ELSE MinContentLength],
           [s \in 1..NSites |-> IF s = 1 THEN 0 ELSE MinContentLength + 1] }

\* what a line of the chat stream adds to the answer: text (a content field, or
\* a line that is not JSON and is taken as it is), white space only, or one
\* complete <thinking> block. A line without content changes nothing.
LineKinds == {"text", "blank", "think"}

\* items upsertLongTermMemory reports as added after one extraction
ExtractCounts == {0, 1}

toLowerCase(u) == [u EXCEPT !.upper = FALSE]

-----------------------------------------------------------------------------
(* AIThinkingEngine *)

Thought(type, about) == [type |-> type, about |-> about]

parseThinkingResponse(reply, about) ==
  [i \in 1..reply.blocks |-> Thought("analysis", about)]

analyzeQuery(reply) ==
  IF reply.ok
    THEN [thoughts |-> parseThinkingResponse(reply, "analysis")]
    ELSE [thoughts |-> <<Thought("error", "analysis")>>]

planResponse(reply) ==
  IF reply.ok
    THEN [thoughts |-> parseThinkingResponse(reply, "response_planning")]
    ELSE [thoughts |-> <<Thought("error", "response_planning")>>]

evaluateResponse(reply) ==
  IF reply.ok
    THEN [thoughts |-> parseThinkingResponse(reply, "evaluation")]
    ELSE [thoughts |-> <<Thought("error", "evaluation")>>]

\* Words of a user query: a word is written in lower case or not. "know" is
\* a word that holds the keyword "now" inside it.
Word(text, upper) == [text |-> text, upper |-> upper]

\* two of the searchKeywords
searchKeywords == {"latest", "now"}

\* String.prototype.includes on a lower-cased word
includes(word, keyword) ==
  /\ ~word.upper
  /\ \/ word.text = keyword
     \/ word.text = "know" /\ keyword = "now"

\* searchKeywords.some(keyword => query.toLowerCase().includes(keyword))
hasSearchKeyword(query) ==
  \E keyword \in searchKeywords :
    \E i \in 1..Len(query) : includes(toLowerCase(query[i]), keyword)

\* a decision that rates a keyword match like an affirmative reply
determineSearchNeedLevel(keyword, reply) ==
  [needsSearch |-> keyword \/ (reply.ok /\ reply.affirm),
   confidence |-> IF keyword \/ (reply.ok /\ reply.affirm) THEN 7
                  ELSE IF reply.ok THEN 6 ELSE 5,
   hasThoughts |-> ~keyword /\ reply.ok,
   thoughts |-> <<>>]

\* a decision whose failure default is to search
determineSearchNeedEager(keyword, reply) ==
  [needsSearch |-> keyword \/ ~reply.ok \/ reply.affirm,
   confidence |-> IF keyword THEN 8 ELSE IF ~reply.ok THEN 5
                  ELSE IF reply.affirm THEN 7 ELSE 6,
   hasThoughts |-> ~keyword /\ reply.ok,
   thoughts |-> <<>>]

\* confidence in tenths; hasThoughts: the result carries a thoughts field
determineSearchNeed(keyword, reply) ==
  IF keyword
    THEN [needsSearch |-> TRUE, confidence |-> 8, hasThoughts |-> FALSE,
          thoughts |-> <<>>]
    ELSE IF reply.ok
      THEN [needsSearch |-> reply.affirm,
            confidence |-> IF reply.affirm THEN 7 ELSE 6,
            hasThoughts |-> TRUE,
            thoughts |-> parseThinkingResponse(reply, "search_decision")]
      ELSE [needsSearch |-> FALSE, confidence |-> 5, hasThoughts |-> FALSE,
            thoughts |-> <<>>]

-----------------------------------------------------------------------------
(* SmartWebSearch *)

\* String.prototype.trim on the text of a line
trimText(text) == IF text = " " THEN "" ELSE text

\* the response field of parseThinkingResponse: the text outside the blocks,
\* trimmed, so that it neither starts nor ends with a blank line, and a marker
\* followed by white space alone at its end is left bare
RECURSIVE trimLines(_)
trimLines(lines) ==
  IF lines = <<>> THEN <<>>
  ELSE IF lines[1].kind = "blank" THEN trimLines(Tail(lines))
  ELSE IF Last(lines).kind = "blank"
    THEN trimLines(SubSeq(lines, 1, Len(lines) - 1))
  ELSE IF Last(lines).kind \in {"numbered", "bullet"} /\ Last(lines).text = " "
    THEN Append(SubSeq(lines, 1, Len(lines) - 1), Line("bare", "1."))
  ELSE lines

\* match[1].trim() of the lines the two patterns match, in order
RECURSIVE matchedQueries(_)
matchedQueries(lines) ==
  IF lines = <<>> THEN <<>>
  ELSE IF lines[1].kind \in {"numbered", "bullet"}
    THEN <<trimText(lines[1].text)>> \o matchedQueries(Tail(lines))
  ELSE matchedQueries(Tail(lines))

\* the extraction without its last line: the matched lines, or none
extractMatchedOnly(response) ==
  matchedQueries(SelectSeq(response, LAMBDA line : line.kind # "blank"))

\* response: the lines of the trimmed text
extractQueriesFromResponse(response) ==
  LET lines == SelectSeq(response, LAMBDA line : line.kind # "blank")
      queries == matchedQueries(lines)
  IN IF queries # <<>> THEN queries
     ELSE <<IF response = <<>> THEN "" ELSE response[1].text>>

generateSearchQueries(query, reply, maxQueries) ==
  IF reply.ok
    THEN [queries |-> Take(extractQueriesFromResponse(trimLines(reply.lines)),
                           maxQueries),
          thoughts |-> parseThinkingResponse(reply, "search_planning")]
    ELSE [queries |-> <<query>>,
          thoughts |-> <<Thought("error", "search_planning")>>]

\* a filter that compares the URLs as they are written
RECURSIVE deduplicateSourcesExact(_)
deduplicateSourcesExact(found) ==
  IF found = <<>> THEN <<>>
  ELSE LET first == found[1]
           rest == SelectSeq(Tail(found), LAMBDA r : r.url # first.url)
       IN <<first>> \o deduplicateSourcesExact(rest)

deduplicateSources(srcs) ==
  LET keep(i) == \A j \in 1..(i - 1) : toLowerCase(srcs[j].url) # toLowerCase(srcs[i].url)
      F[i \in 0..Len(srcs)] ==
        IF i = 0 THEN <<>>
        ELSE IF keep(i) THEN Append(F[i - 1], srcs[i]) ELSE F[i - 1]
  IN F[Len(srcs)]

\* currentResults: [isArray, length]; confidence in tenths
\* the rule without the "below 5" condition of its 3 to 7 band
shouldContinueBelowEight(query, currentResults, complexity) ==
  LET resultCount == IF currentResults.isArray THEN currentResults.length ELSE 0
      shouldContinue ==
        IF resultCount = 0 THEN TRUE
        ELSE IF resultCount < 8 THEN complexity = "high"
        ELSE FALSE
  IN [shouldContinue |-> shouldContinue,
      confidence |-> IF resultCount = 0 THEN 9 ELSE 8,
      thoughts |-> <<Thought("search_decision", "search_round")>>,
      resultCount |-> resultCount]

shouldContinueSearching(query, currentResults, complexity) ==
  LET resultCount == IF currentResults.isArray THEN currentResults.length ELSE 0
      shouldContinue ==
        IF resultCount = 0 THEN TRUE
        ELSE IF resultCount < 3 THEN complexity = "high"
        ELSE IF resultCount < 8 THEN complexity = "high" /\ resultCount < 5
        ELSE FALSE
      confidence ==
        IF resultCount = 0 THEN 9
        ELSE IF resultCount < 3 THEN 7
        ELSE IF resultCount < 8 THEN 8
        ELSE 9
  IN [shouldContinue |-> shouldContinue,
      confidence |-> confidence,
      thoughts |-> <<Thought("search_decision", "search_round")>>,
      resultCount |-> resultCount]

\* An answer of the search backend to one of the URL variants: ok = FALSE when
\* the fetch failed, the status was not ok or the body was not JSON.
Answer(ok, results) == [ok |-> ok, results |-> results]

\* the backend giving every URL variant the same answer
SameAnswer(ok, results) == [variant \in 1..3 |-> Answer(ok, results)]

\* (r.title || r.url).trim(): "url" stands for the text of the URL
titleOf(r) ==
  IF r.title = "" THEN "url" ELSE IF r.title = " " THEN "" ELSE r.title

\* the filter, slice and map applied to json.results
resultsOf(results, count) ==
  LET qualifying == SelectSeq(results, LAMBDA r : r.url.scheme = "http")
      kept == Take(qualifying, count)
  IN [i \in 1..Len(kept) |-> [title |-> titleOf(kept[i]), url |-> kept[i].url]]

\* the same in server.js, which ends with a filter on title and url
resultsOfBasic(results, count) ==
  SelectSeq(resultsOf(results, count), LAMBDA r : r.title # "")

\* a search that asks the first URL variant only
webSearchFirstOnly(answers, count) ==
  IF answers # <<>> /\ answers[1].ok THEN resultsOf(answers[1].results, count)
  ELSE <<>>

\* the loop over the URL variants: the first answer with results is returned
RECURSIVE webSearch(_, _)
webSearch(answers, count) ==
  IF answers = <<>> THEN <<>>
  ELSE LET results == IF answers[1].ok
                        THEN resultsOf(answers[1].results, count) ELSE <<>>
       IN IF Len(results) > 0 THEN results
          ELSE webSearch(Tail(answers), count)

\* webSearch of server.js
RECURSIVE webSearchBasic(_, _)
webSearchBasic(answers, count) ==
  IF answers = <<>> THEN <<>>
  ELSE LET results == IF answers[1].ok
                        THEN resultsOfBasic(answers[1].results, count) ELSE <<>>
       IN IF Len(results) > 0 THEN results
          ELSE webSearchBasic(Tail(answers), count)


\* the URL variants the loop of webSearch fetches, in the order of the fetches
requestedVariants(answers, count) ==
  LET F[i \in 0..Len(answers)] ==
        IF i = 0 THEN [requested |-> <<>>, returned |-> FALSE]
        ELSE IF F[i - 1].returned THEN F[i - 1]
        ELSE [requested |-> Append(F[i - 1].requested, i),
              returned |-> /\ answers[i].ok
                           /\ Len(resultsOf(answers[i].results, count)) > 0]
  IN F[Len(answers)].requested

\* the same for webSearch of server.js
requestedVariantsBasic(answers, count) ==
  LET F[i \in 0..Len(answers)] ==
        IF i = 0 THEN [requested |-> <<>>, returned |-> FALSE]
        ELSE IF F[i - 1].returned THEN F[i - 1]
        ELSE [requested |-> Append(F[i - 1].requested, i),
              returned |-> /\ answers[i].ok
                           /\ Len(resultsOfBasic(answers[i].results, count)) > 0]
  IN F[Len(answers)].requested

-----------------------------------------------------------------------------
(* The answer text: the sequence of the pieces appended to finalAnswer *)

\* finalAnswer.trim() is not empty
NonBlank(ans) == \E i \in 1..Len(ans) : ans[i] # "blank"

\* ans.replace(/<thinking>[\s\S]*?<\/thinking>/g, '')
StripThinking(ans) == SelectSeq(ans, LAMBDA t : t # "think")

\* ans.trim()
Trim(ans) ==
  IF ~NonBlank(ans) THEN <<>>
  ELSE LET first == CHOOSE i \in 1..Len(ans) :
                      ans[i] # "blank" /\ \A j \in 1..(i - 1) : ans[j] = "blank"
           last == CHOOSE i \in 1..Len(ans) :
                      ans[i] # "blank" /\ \A j \in (i + 1)..Len(ans) : ans[j] = "blank"
       IN SubSeq(ans, first, last)

-----------------------------------------------------------------------------
(* Events *)

Ev(name) == [event |-> name]
PhaseEv(name, phase) == [event |-> name, phase |-> phase]
ChunkEv(content) == [event |-> "response_chunk", content |-> content]

\* a completion event that counts the Thoughts before the request has any
CompleteEvEarly(now) ==
  [event |-> "complete",
   usedSearch |-> usedSearch,
   sources |-> Len(sources),
   thoughts |-> 0,
   memoryAdded |-> Len(memoryAdded),
   processingTime |-> now,
   searchQueries |-> searchQueries]

CompleteEv(now) ==
  [event |-> "complete",
   usedSearch |-> usedSearch,
   sources |-> Len(sources),
   thoughts |-> Len(allThoughts),
   memoryAdded |-> Len(memoryAdded),
   processingTime |-> now,
   searchQueries |-> searchQueries]

IsTerminal(e) == e.event \in {"complete", "error"}

\* the backend calls so far leave room for one more failure
CanFail == Len(failed) < MaxFaults

\* the replies ollamaGenerate can produce to a prompt of the pipeline
GenReplies(itemCounts, affirms) ==
  { GenReply(TRUE, style, n, a) : n \in itemCounts, a \in affirms }
    \cup (IF CanFail THEN {FailedReply} ELSE {})

\* a catch block without the end of the stream: the error event is written and
\* the handler goes on to its last step
AbortAndGoOn(evs, what) ==
  /\ events' = evs \o <<Ev("error")>>
  /\ failed' = Append(failed, what)
  /\ pc' = "complete"

\* the catch of the streaming pipeline: one error event, then res.end()
Abort(evs, what) ==
  /\ events' = evs \o <<Ev("error")>>
  /\ failed' = Append(failed, what)
  /\ pc' = "done"

-----------------------------------------------------------------------------
(* POST /api/chat, streaming *)

Body(autoSearch, fileContent, useMemory) ==
  [autoSearch |-> autoSearch, fileContent |-> fileContent, useMemory |-> useMemory]

\* a session created by this request, and one that holds an earlier exchange
NewSession == [messages |-> <<>>, titleAutoGenerated |-> FALSE]
OldSession ==
  [messages |-> <<[role |-> "user", content |-> <<"text">>],
                  [role |-> "assistant", content |-> <<"text">>]>>,
   titleAutoGenerated |-> FALSE]

\* the requests of the model
Requests ==
  { [req |-> Body(TRUE, FALSE, TRUE), session |-> OldSession],
    [req |-> Body(TRUE, FALSE, FALSE), session |-> NewSession],
    [req |-> Body(FALSE, FALSE, TRUE), session |-> NewSession],
    [req |-> Body(TRUE, TRUE, TRUE), session |-> NewSession] }

PipeInit ==
  /\ pc = "start"
  /\ \E r \in Requests : req = r.req /\ session = r.session
  /\ style \in {0, MaxThoughts}
  /\ events = <<>>
  /\ allThoughts = <<>>
  /\ sources = <<>>
  /\ usedSearch = FALSE
  /\ memoryAdded = <<>>
  /\ searchQueries = <<>>
  /\ finalAnswer = <<>>
  /\ allSearchResults = <<>>
  /\ searchRound = 1
  /\ continueLog = <<>>
  /\ searchDecision = [needsSearch |-> FALSE]
  /\ contentResults = <<>>
  /\ streamed = <<>>
  /\ failed = <<>>
  /\ clock = 0

\* the catch of loadSession: defaultData takes the place of the file
loadedAfterReadFailure(stored) == NewSession

\* loadSession, retrieveLongTermMemory and res.writeHead
StartRequest ==
  /\ pc = "start"
  /\ clock' = clock + 1
  /\ \/ /\ pc' = "analysis"
        /\ UNCHANGED <<failed, session>>
     \/ \* readJSON throws on the session file and the catch of loadSession
        \* writes the default session in its place
        /\ CanFail
        /\ session' = loadedAfterReadFailure(session)
        /\ pc' = "analysis"
        /\ failed' = Append(failed, "session_read")
     \/ /\ CanFail
        /\ pc' = "http500"
        /\ failed' = Append(failed, "session")
        /\ UNCHANGED session
  /\ UNCHANGED <<offVars, req, style, events, allThoughts, sources, usedSearch,
                 memoryAdded, searchQueries, finalAnswer, allSearchResults,
                 searchRound, continueLog, searchDecision, contentResults, streamed>>

\* the gate without its attachment condition
searchAllowedByFlag(body) == body.autoSearch

\* the decision phase runs when automatic search is on and no file is attached
searchAllowed(body) == body.autoSearch /\ ~body.fileContent

\* Phase 1
QueryAnalysis ==
  /\ pc = "analysis"
  /\ clock' = clock + 1
  /\ \E reply \in GenReplies({0}, {FALSE}) :
       LET queryAnalysis == analyzeQuery(reply) IN
       /\ allThoughts' = allThoughts \o queryAnalysis.thoughts
       /\ events' = events \o <<PhaseEv("thinking_start", "analysis"),
                                PhaseEv("thinking_update", "analysis")>>
       /\ failed' = IF reply.ok THEN failed ELSE Append(failed, "analysis")
  /\ pc' = IF searchAllowed(req) THEN "search_decision" ELSE "phase3"
  /\ UNCHANGED <<offVars, req, style, session, sources, usedSearch, memoryAdded, searchQueries,
                 finalAnswer, allSearchResults, searchRound, continueLog, searchDecision, contentResults, streamed>>

\* Phase 2, the decision
SearchDecision ==
  /\ pc = "search_decision"
  /\ clock' = clock + 1
  /\ \E keyword \in BOOLEAN :
     \E reply \in (IF keyword THEN {NoReply}
                   ELSE GenReplies({0}, BOOLEAN)) :
       LET decision == determineSearchNeed(keyword, reply) IN
       /\ allThoughts' = allThoughts \o decision.thoughts
       /\ events' = events \o <<PhaseEv("thinking_start", "search_decision"),
                                PhaseEv("thinking_update", "search_decision")>>
       /\ failed' = IF keyword \/ reply.ok THEN failed
                    ELSE Append(failed, "search_decision")
       /\ searchDecision' = [needsSearch |-> decision.needsSearch]
       /\ usedSearch' = decision.needsSearch
       /\ pc' = IF decision.needsSearch THEN "search_planning" ELSE "phase3"
  /\ UNCHANGED <<offVars, req, style, session, sources, memoryAdded, searchQueries, finalAnswer,
                 allSearchResults, searchRound, continueLog, contentResults,
                 streamed>>

SearchPlanning ==
  /\ pc = "search_planning"
  /\ clock' = clock + 1
  /\ \E reply \in GenReplies(ReplyItems, {FALSE}) :
       LET queryGeneration == generateSearchQueries("userMessage", reply, MaxQueries) IN
       /\ searchQueries' = queryGeneration.queries
       /\ allThoughts' = allThoughts \o queryGeneration.thoughts
       /\ events' = events \o <<PhaseEv("thinking_start", "search_planning"),
                                PhaseEv("thinking_update", "search_planning")>>
       /\ failed' = IF reply.ok THEN failed ELSE Append(failed, "search_planning")
  /\ allSearchResults' = <<>>
  /\ searchRound' = 1
  /\ pc' = "search_round"
  /\ UNCHANGED <<offVars, req, style, session, sources, usedSearch, memoryAdded, finalAnswer,
                 continueLog, searchDecision, contentResults, streamed>>


ArrayOf(results) == [isArray |-> TRUE, length |-> Len(results)]

\* a loop that ignores the decision
neverBreak(continueDecision) == FALSE

\* the loop over searchQueries is left when the decision is not to continue
breakLoop(continueDecision) == ~continueDecision.shouldContinue

\* a loop that rates every request as of medium complexity
roundComplexityMedium == "medium"

\* the complexity the loop passes to the continuation decision
roundComplexity == "high"

\* one iteration of the loop over searchQueries
SearchRound ==
  /\ pc = "search_round"
  /\ searchRound <= Len(searchQueries)
  /\ clock' = clock + 1
  /\ \E ok \in {TRUE} \cup (IF CanFail THEN {FALSE} ELSE {}) :
     \E size \in (IF ok THEN BackendSizes ELSE {0}) :
       LET query == searchQueries[searchRound]
           results == webSearch(SameAnswer(ok, Catalog(size)), SearchCount)
           all == IF Len(results) > 0 THEN allSearchResults \o results
                  ELSE allSearchResults
           started == Append(events,
                        [event |-> "search_start", query |-> query,
                         round |-> searchRound, total |-> Len(searchQueries)])
           found == IF Len(results) > 0
                      THEN Append(started,
                             [event |-> "search_results", query |-> query,
                              results |-> Len(results), total |-> Len(all)])
                      ELSE started
           continueDecision == shouldContinueSearching("userMessage", ArrayOf(all),
                                                       roundComplexity)
           after == IF Len(all) > 0 THEN "content_processing" ELSE "phase3"
       IN
       /\ allSearchResults' = all
       /\ failed' = IF ok THEN failed ELSE Append(failed, "search_round")
       /\ IF searchRound < Len(searchQueries)
            THEN /\ allThoughts' = allThoughts \o continueDecision.thoughts
                 /\ continueLog' = Append(continueLog, continueDecision)
                 /\ IF breakLoop(continueDecision)
                      THEN /\ events' = Append(found,
                                          [event |-> "search_complete",
                                           totalResults |-> Len(all)])
                           /\ searchRound' = searchRound
                           /\ pc' = after
                      ELSE /\ events' = found
                           /\ searchRound' = searchRound + 1
                           /\ pc' = "search_round"
            ELSE /\ events' = found
                 /\ searchRound' = searchRound + 1
                 /\ pc' = after
                 /\ UNCHANGED <<allThoughts, continueLog>>
  /\ UNCHANGED <<offVars, req, style, session, sources, usedSearch, memoryAdded, searchQueries,
                 finalAnswer, searchDecision, contentResults, streamed>>

\* the filter with its comparison turned round
shortResults(topResults, content) ==
  LET F[i \in 0..Len(topResults)] ==
        IF i = 0 THEN <<>>
        ELSE IF content[i] < MinContentLength
               THEN Append(F[i - 1], [idx |-> i, url |-> topResults[i].url])
               ELSE F[i - 1]
  IN F[Len(topResults)]

\* sources numbered by their place among the sources kept
validResultsRenumbered(topResults, content) ==
  LET F[i \in 0..Len(topResults)] ==
        IF i = 0 THEN <<>>
        ELSE IF content[i] > MinContentLength
               THEN Append(F[i - 1], [idx |-> Len(F[i - 1]) + 1,
                                      url |-> topResults[i].url])
               ELSE F[i - 1]
  IN F[Len(topResults)]

\* the sources of the turn: the candidates whose fetched text is long enough
validResults(topResults, content) ==
  LET F[i \in 0..Len(topResults)] ==
        IF i = 0 THEN <<>>
        ELSE IF content[i] > MinContentLength
               THEN Append(F[i - 1], [idx |-> i, url |-> topResults[i].url])
               ELSE F[i - 1]
  IN F[Len(topResults)]

ContentProcessing ==
  /\ pc = "content_processing"
  /\ clock' = clock + 1
  /\ \E pageLen \in PageLengths :
       LET topResults == Take(allSearchResults, TopResults)
           content == [i \in 1..Len(topResults) |-> pageLen[topResults[i].url.site]]
           fetchFailed == \E i \in 1..Len(topResults) : content[i] = 0
       IN
       /\ fetchFailed => CanFail
       /\ contentResults' = content
       /\ sources' = validResults(topResults, content)
       /\ failed' = IF fetchFailed THEN Append(failed, "fetch") ELSE failed
       /\ pc' = IF Len(sources') > 0 THEN "grounded_chat" ELSE "phase3"
  /\ events' = Append(events, Ev("content_processing"))
  /\ UNCHANGED <<offVars, req, style, session, allThoughts, usedSearch, memoryAdded,
                 searchQueries, finalAnswer, allSearchResults, searchRound,
                 continueLog, searchDecision, streamed>>

\* ollamaChat with the sources as context
GroundedChat ==
  /\ pc = "grounded_chat"
  /\ clock' = clock + 1
  /\ \/ /\ events' = events \o <<Ev("response_generation"), Ev("response_start")>>
        /\ pc' = "grounded_read"
        /\ UNCHANGED failed
     \/ /\ CanFail
        /\ Abort(Append(events, Ev("response_generation")), "chat")
  /\ UNCHANGED <<offVars, req, style, session, allThoughts, sources, usedSearch, memoryAdded,
                 searchQueries, finalAnswer, allSearchResults, searchRound,
                 continueLog, searchDecision, contentResults, streamed>>

\* one step of the reader loop of the grounded answer
GroundedRead ==
  /\ pc = "grounded_read"
  /\ clock' = clock + 1
  /\ \/ /\ events' = Append(events, Ev("response_complete"))
        /\ pc' = "phase3"
        /\ UNCHANGED <<finalAnswer, streamed, failed>>
     \/ /\ CanFail
        /\ Abort(events, "chat")
        /\ UNCHANGED <<finalAnswer, streamed>>
     \/ /\ Len(streamed) < MaxLines
        /\ \E kind \in LineKinds :
             /\ streamed' = Append(streamed, kind)
             /\ finalAnswer' = Append(finalAnswer, kind)
             /\ events' = Append(events, ChunkEv(kind))
        /\ UNCHANGED <<pc, failed>>
  /\ UNCHANGED <<offVars, req, style, session, allThoughts, sources, usedSearch, memoryAdded,
                 searchQueries, allSearchResults, searchRound, continueLog,
                 searchDecision, contentResults>>


needsDirectAnswer == ~usedSearch \/ ~NonBlank(finalAnswer)

\* a planning phase that puts its thoughts before the earlier ones
ResponsePlanningUnshift ==
  /\ pc = "phase3"
  /\ needsDirectAnswer
  /\ clock' = clock + 1
  /\ \E reply \in GenReplies({0}, {FALSE}) :
       LET responsePlan == planResponse(reply) IN
       /\ allThoughts' = responsePlan.thoughts \o allThoughts
       /\ events' = events \o <<PhaseEv("thinking_start", "response_planning"),
                                PhaseEv("thinking_update", "response_planning"),
                                Ev("response_start")>>
       /\ failed' = IF reply.ok THEN failed ELSE Append(failed, "response_planning")
  /\ pc' = "direct_chat"
  /\ UNCHANGED <<offVars, req, style, session, sources, usedSearch, memoryAdded, searchQueries,
                 finalAnswer, allSearchResults, searchRound, continueLog, searchDecision, contentResults, streamed>>

\* Phase 3, taken when no search was used or the search gave no answer
ResponsePlanning ==
  /\ pc = "phase3"
  /\ needsDirectAnswer
  /\ clock' = clock + 1
  /\ \E reply \in GenReplies({0}, {FALSE}) :
       LET responsePlan == planResponse(reply) IN
       /\ allThoughts' = allThoughts \o responsePlan.thoughts
       /\ events' = events \o <<PhaseEv("thinking_start", "response_planning"),
                                PhaseEv("thinking_update", "response_planning"),
                                Ev("response_start")>>
       /\ failed' = IF reply.ok THEN failed ELSE Append(failed, "response_planning")
  /\ pc' = "direct_chat"
  /\ UNCHANGED <<offVars, req, style, session, sources, usedSearch, memoryAdded, searchQueries,
                 finalAnswer, allSearchResults, searchRound, continueLog, searchDecision, contentResults, streamed>>

\* ollamaChat with the session history as context
DirectChat ==
  /\ pc = "direct_chat"
  /\ clock' = clock + 1
  /\ \/ /\ pc' = "direct_read"
        /\ UNCHANGED <<events, failed>>
     \/ /\ CanFail
        /\ Abort(events, "chat")
  /\ UNCHANGED <<offVars, req, style, session, allThoughts, sources, usedSearch, memoryAdded,
                 searchQueries, finalAnswer, allSearchResults, searchRound,
                 continueLog, searchDecision, contentResults, streamed>>

\* one step of the reader loop of the direct answer
DirectRead ==
  /\ pc = "direct_read"
  /\ clock' = clock + 1
  /\ \/ /\ events' = Append(events, Ev("response_complete"))
        /\ pc' = "evaluation"
        /\ UNCHANGED <<finalAnswer, allThoughts, streamed, failed>>
     \/ /\ CanFail
        /\ Abort(events, "chat")
        /\ UNCHANGED <<finalAnswer, allThoughts, streamed>>
     \/ /\ Len(streamed) < MaxLines
        /\ \E kind \in LineKinds :
             /\ streamed' = Append(streamed, kind)
             /\ finalAnswer' = Append(finalAnswer, kind)
             /\ IF kind = "think"
                  THEN \* the block becomes a Thought; nothing of the line is left
                       /\ allThoughts' = Append(allThoughts,
                                                Thought("reasoning", "response"))
                       /\ events' = Append(events, Ev("thinking_stream"))
                  ELSE /\ events' = Append(events, ChunkEv(kind))
                       /\ UNCHANGED allThoughts
        /\ UNCHANGED <<pc, failed>>
  /\ UNCHANGED <<offVars, req, style, session, sources, usedSearch, memoryAdded, searchQueries,
                 allSearchResults, searchRound, continueLog, searchDecision,
                 contentResults>>

\* Phase 4 with a failure of evaluateResponse reaching the handler's catch
EvaluationUncaught ==
  /\ \/ pc = "evaluation"
     \/ pc = "phase3" /\ ~needsDirectAnswer
  /\ clock' = clock + 1
  /\ IF NonBlank(finalAnswer)
       THEN \E reply \in GenReplies({0}, {FALSE}) :
              LET evaluation == evaluateResponse(reply) IN
              IF reply.ok
                THEN /\ allThoughts' = allThoughts \o evaluation.thoughts
                     /\ events' = events \o <<PhaseEv("thinking_start", "evaluation"),
                                              PhaseEv("thinking_update", "evaluation")>>
                     /\ pc' = "save"
                     /\ UNCHANGED failed
                ELSE /\ Abort(Append(events, PhaseEv("thinking_start", "evaluation")),
                              "evaluation")
                     /\ UNCHANGED allThoughts
       ELSE /\ pc' = "save"
            /\ UNCHANGED <<allThoughts, events, failed>>
  /\ UNCHANGED <<offVars, req, style, session, sources, usedSearch, memoryAdded, searchQueries,
                 finalAnswer, allSearchResults, searchRound, continueLog, searchDecision, contentResults, streamed>>

\* Phase 4
Evaluation ==
  /\ \/ pc = "evaluation"
     \/ pc = "phase3" /\ ~needsDirectAnswer
  /\ clock' = clock + 1
  /\ IF NonBlank(finalAnswer)
       THEN \E reply \in GenReplies({0}, {FALSE}) :
              LET evaluation == evaluateResponse(reply) IN
              /\ allThoughts' = allThoughts \o evaluation.thoughts
              /\ events' = events \o <<PhaseEv("thinking_start", "evaluation"),
                                       PhaseEv("thinking_update", "evaluation")>>
              /\ failed' = IF reply.ok THEN failed ELSE Append(failed, "evaluation")
       ELSE UNCHANGED <<allThoughts, events, failed>>
  /\ pc' = "save"
  /\ UNCHANGED <<offVars, req, style, session, sources, usedSearch, memoryAdded, searchQueries,
                 finalAnswer, allSearchResults, searchRound, continueLog, searchDecision, contentResults, streamed>>

\* the thinking blocks are cut from the answer and the turn is saved
SaveConversation ==
  /\ pc = "save"
  /\ clock' = clock + 1
  /\ finalAnswer' = Trim(StripThinking(finalAnswer))
  /\ \/ /\ session' = [session EXCEPT !.messages =
                         @ \o <<[role |-> "user", content |-> <<"text">>],
                                [role |-> "assistant", content |-> finalAnswer']>>]
        /\ pc' = "title"
        /\ UNCHANGED <<events, failed>>
     \/ /\ CanFail
        /\ Abort(events, "session")
        /\ UNCHANGED session
  /\ UNCHANGED <<offVars, req, style, allThoughts, sources, usedSearch, memoryAdded,
                 searchQueries, allSearchResults, searchRound, continueLog, searchDecision, contentResults, streamed>>

\* the title is generated once, from the second user message on
GenerateTitle ==
  /\ pc = "title"
  /\ clock' = clock + 1
  /\ LET userMessageCount ==
           Cardinality({ i \in 1..Len(session.messages) :
                           session.messages[i].role = "user" })
     IN IF userMessageCount >= 2 /\ ~session.titleAutoGenerated
          THEN \/ /\ CanFail
                  /\ failed' = Append(failed, "title")
                  /\ UNCHANGED <<session, events>>
               \/ \* no usable title in the reply
                  UNCHANGED <<session, events, failed>>
               \/ /\ session' = [session EXCEPT !.titleAutoGenerated = TRUE]
                  /\ events' = Append(events, Ev("title_updated"))
                  /\ UNCHANGED failed
               \/ \* the title is found and saveSession fails
                  /\ CanFail
                  /\ failed' = Append(failed, "session_title")
                  /\ UNCHANGED <<session, events>>
          ELSE UNCHANGED <<session, events, failed>>
  /\ pc' = "memory"
  /\ UNCHANGED <<offVars, req, style, allThoughts, sources, usedSearch, memoryAdded,
                 searchQueries, finalAnswer, allSearchResults, searchRound,
                 continueLog, searchDecision, contentResults, streamed>>

\* memory extraction outside its try block: a failure reaches the handler's
\* catch
ExtractMemoryUncaught ==
  /\ pc = "memory"
  /\ clock' = clock + 1
  /\ IF req.useMemory /\ finalAnswer # <<>>
       THEN \/ /\ CanFail
               /\ Abort(events, "memory")
               /\ UNCHANGED memoryAdded
            \/ \E n \in ExtractCounts :
                 /\ memoryAdded' = [i \in 1..n |-> "item"]
                 /\ events' = IF n > 0
                                THEN Append(events, [event |-> "memory_updated",
                                                     added |-> n])
                                ELSE events
                 /\ pc' = "complete"
                 /\ UNCHANGED failed
       ELSE /\ pc' = "complete"
            /\ UNCHANGED <<memoryAdded, events, failed>>
  /\ UNCHANGED <<offVars, req, style, session, allThoughts, sources, usedSearch, searchQueries,
                 finalAnswer, allSearchResults, searchRound, continueLog, searchDecision, contentResults, streamed>>

\* memory extraction and upsertLongTermMemory
ExtractMemory ==
  /\ pc = "memory"
  /\ clock' = clock + 1
  /\ IF req.useMemory /\ finalAnswer # <<>>
       THEN \/ /\ CanFail
               /\ failed' = Append(failed, "memory")
               /\ UNCHANGED <<memoryAdded, events>>
            \/ \E n \in ExtractCounts :
                 /\ memoryAdded' = [i \in 1..n |-> "item"]
                 /\ events' = IF n > 0
                                THEN Append(events, [event |-> "memory_updated",
                                                     added |-> n])
                                ELSE events
                 /\ UNCHANGED failed
       ELSE UNCHANGED <<memoryAdded, events, failed>>
  /\ pc' = "complete"
  /\ UNCHANGED <<offVars, req, style, session, allThoughts, sources, usedSearch, searchQueries,
                 finalAnswer, allSearchResults, searchRound, continueLog, searchDecision, contentResults, streamed>>

Complete ==
  /\ pc = "complete"
  /\ clock' = clock + 1
  /\ events' = Append(events, CompleteEv(clock'))
  /\ pc' = "done"
  /\ UNCHANGED <<offVars, req, style, session, allThoughts, sources, usedSearch, memoryAdded,
                 searchQueries, finalAnswer, allSearchResults, searchRound,
                 continueLog, searchDecision, contentResults, streamed, failed>>

Next ==
  \/ StartRequest
  \/ QueryAnalysis
  \/ SearchDecision
  \/ SearchPlanning
  \/ SearchRound
  \/ ContentProcessing
  \/ GroundedChat
  \/ GroundedRead
  \/ ResponsePlanning
  \/ DirectChat
  \/ DirectRead
  \/ Evaluation
  \/ SaveConversation
  \/ GenerateTitle
  \/ ExtractMemory
  \/ Complete

FnIdle == fnIn = <<>> /\ fnOut = <<>>

\* no backend operation is observed on its own
NoOperation == [phase |-> "none"]

SessionIds == 1..MaxSessions

\* no request has been answered yet
NoResponse == [op |-> "none"]

\* the sessions directory as the server finds it at its first start
SessIdle ==
  /\ sessionsDir = [id \in SessionIds |-> "absent"]
  /\ httpResponse = NoResponse
  /\ deletedIds = {}
  /\ apiFaults = 0

ApiIdle == netCall = NoOperation /\ SessIdle /\ clientGone = FALSE

\* memory.json as ensureFile leaves it, and no call of the store in progress
Callers == {"a", "b"}

EmptyMemory == [longTerm |-> <<>>, nextId |-> 1]

NoCall == [phase |-> "idle"]

MemIdle ==
  /\ memoryFile = EmptyMemory
  /\ upserts = [c \in Callers |-> NoCall]
  /\ idLog = <<>>
  /\ memFailed = 0
  /\ submitted = 0

Init == PipeInit /\ FnIdle /\ MemIdle /\ ApiIdle

Spec == Init /\ [][Next]_vars

\* a write that fails reaches the handler as an exception
DisconnectThrowing ==
  /\ ~clientGone
  /\ pc \notin {"start", "http500", "done"}
  /\ clientGone' = TRUE
  /\ Abort(events, "write")
  /\ clock' = clock
  /\ UNCHANGED <<fnVars, memVars, netCall, sessVars, req, style, session,
                 allThoughts, sources, usedSearch, memoryAdded, searchQueries,
                 finalAnswer, allSearchResults, searchRound, continueLog,
                 searchDecision, contentResults, streamed>>

\* The client goes away while the stream is open: from here on res.write
\* fails inside sendSSE, whose catch keeps the failure from the handler.
Disconnect ==
  /\ ~clientGone
  /\ pc \notin {"start", "http500", "done"}
  /\ clientGone' = TRUE
  /\ UNCHANGED <<pipeVars, fnVars, memVars, netCall, sessVars>>

\* the streamed request with a client that may disconnect
DisconnectNext ==
  \/ Disconnect
  \/ StartRequest
  \/ QueryAnalysis
  \/ SearchDecision
  \/ SearchPlanning
  \/ SearchRound
  \/ ContentProcessing
  \/ GroundedChat
  \/ GroundedRead
  \/ ResponsePlanning
  \/ DirectChat
  \/ DirectRead
  \/ Evaluation
  \/ SaveConversation
  \/ GenerateTitle
  \/ ExtractMemory
  \/ Complete

DisconnectSpec == Init /\ [][DisconnectNext]_vars

\* the request up to the end of its search rounds
SearchLoopNext ==
  \/ StartRequest
  \/ QueryAnalysis
  \/ SearchDecision
  \/ SearchPlanning
  \/ SearchRound

\* every call of a search round is bounded by a timeout, so a round that can
\* run does run
SearchLoopSpec == Init /\ [][SearchLoopNext]_vars /\ WF_vars(SearchRound)


-----------------------------------------------------------------------------
(* shouldContinueSearching on its own *)

Complexities == {"low", "medium", "high"}
Queries == {"q1", "q2"}

FnArgs ==
  { [query |-> q, currentResults |-> [isArray |-> TRUE, length |-> n],
     complexity |-> c] : q \in Queries, n \in 0..MaxCount, c \in Complexities }
    \cup
  { [query |-> q, currentResults |-> [isArray |-> FALSE, length |-> 0],
     complexity |-> c] : q \in Queries, c \in Complexities }

\* the pipeline variables while only the function runs
PipeIdle ==
  /\ pc = "idle"
  /\ req = Body(TRUE, FALSE, TRUE)
  /\ style = 0
  /\ session = NewSession
  /\ events = <<>>
  /\ allThoughts = <<>>
  /\ sources = <<>>
  /\ usedSearch = FALSE
  /\ memoryAdded = <<>>
  /\ searchQueries = <<>>
  /\ finalAnswer = <<>>
  /\ allSearchResults = <<>>
  /\ searchRound = 1
  /\ continueLog = <<>>
  /\ searchDecision = [needsSearch |-> FALSE]
  /\ contentResults = <<>>
  /\ streamed = <<>>
  /\ failed = <<>>
  /\ clock = 0

FnInit ==
  PipeIdle /\ MemIdle /\ ApiIdle /\ (\E a \in FnArgs : fnIn = <<a>>) /\ fnOut = <<>>

CallShouldContinue ==
  /\ fnOut = <<>>
  /\ fnOut' = <<shouldContinueSearching(fnIn[1].query, fnIn[1].currentResults,
                                         fnIn[1].complexity)>>
  /\ UNCHANGED <<fnIn, pipeVars, memVars, apiVars>>

FnNext == CallShouldContinue

FnSpec == FnInit /\ [][FnNext]_vars


-----------------------------------------------------------------------------
(* The long-term memory store *)

\* what a candidate or a query can say; "" is the candidate without content
Contents == {"", "u", "v", "x"}

\* the vector the embedding model gives a text: v lies within 0.95 of u and
\* of x, while u and x are further apart
EmbeddingOf(text) ==
  CASE text = "u" -> <<10, 0>>
    [] text = "v" -> <<10, 3>>
    [] text = "x" -> <<5, 3>>
    [] OTHER -> <<0, 0>>

\* the embedding field of an item: a vector, or null
Embedded(vec) == [has |-> TRUE, vec |-> vec]
NoEmbedding == [has |-> FALSE, vec |-> <<>>]

RECURSIVE SumTo(_, _)
SumTo(f, n) == IF n = 0 THEN 0 ELSE f[n] + SumTo(f, n - 1)

\* a cosine similarity, kept exact: dot / sqrt(nn)
Sim(dot, nn) == [dot |-> dot, nn |-> nn]
SimZero == Sim(0, 1)

cosSim(a, b) ==
  IF ~a.has \/ ~b.has \/ Len(a.vec) # Len(b.vec) THEN SimZero
  ELSE LET n == Len(a.vec)
           dotProduct == SumTo([i \in 1..n |-> a.vec[i] * b.vec[i]], n)
           normA == SumTo([i \in 1..n |-> a.vec[i] * a.vec[i]], n)
           normB == SumTo([i \in 1..n |-> b.vec[i] * b.vec[i]], n)
       IN IF normA * normB = 0 THEN SimZero ELSE Sim(dotProduct, normA * normB)

\* s > pct / 100 and s >= pct / 100, for pct >= 0
SimAbove(s, pct) == s.dot > 0 /\ 10000 * s.dot * s.dot > pct * pct * s.nn
SimAtLeast(s, pct) == s.dot >= 0 /\ 10000 * s.dot * s.dot >= pct * pct * s.nn

\* s < t
SimLess(s, t) ==
  IF s.dot < 0
    THEN t.dot >= 0 \/ s.dot * s.dot * t.nn > t.dot * t.dot * s.nn
    ELSE t.dot > 0 /\ s.dot * s.dot * t.nn < t.dot * t.dot * s.nn

\* the duplicate threshold, in hundredths
DuplicateThreshold == 95

\* the duplicate check with its threshold at 0.99
isDuplicateAbove99(embedding, longTerm) ==
  /\ embedding.has
  /\ \E i \in 1..Len(longTerm) :
       /\ longTerm[i].embedding.has
       /\ SimAbove(cosSim(embedding, longTerm[i].embedding), 99)

isDuplicate(embedding, longTerm) ==
  /\ embedding.has
  /\ \E i \in 1..Len(longTerm) :
       /\ longTerm[i].embedding.has
       /\ SimAbove(cosSim(embedding, longTerm[i].embedding), DuplicateThreshold)

\* the loop body with nextId read but not advanced
upsertItemSameId(memory, added, content, embedding) ==
  IF content = "" \/ isDuplicate(embedding, memory.longTerm)
    THEN [memory |-> memory, added |-> added]
    ELSE LET memoryItem == [id |-> memory.nextId, content |-> content,
                            embedding |-> embedding]
         IN [memory |-> [longTerm |-> Append(memory.longTerm, memoryItem),
                         nextId |-> memory.nextId],
             added |-> Append(added, memoryItem)]

\* the body of the loop of upsertLongTermMemory for one candidate, on the
\* memory object the call has loaded
upsertItem(memory, added, content, embedding) ==
  IF content = "" \/ isDuplicate(embedding, memory.longTerm)
    THEN [memory |-> memory, added |-> added]
    ELSE LET memoryItem == [id |-> memory.nextId, content |-> content,
                            embedding |-> embedding]
         IN [memory |-> [longTerm |-> Append(memory.longTerm, memoryItem),
                         nextId |-> memory.nextId + 1],
             added |-> Append(added, memoryItem)]

\* the candidate lists of a call, by the content of each candidate
RECURSIVE SeqsUpTo(_, _)
SeqsUpTo(S, n) ==
  IF n = 0 THEN {<<>>}
  ELSE LET shorter == SeqsUpTo(S, n - 1)
       IN shorter \cup { Append(q, x) : q \in { r \in shorter : Len(r) = n - 1 },
                                         x \in S }

Batches == SeqsUpTo(Contents, MaxBatch)

MemCanFail == memFailed < MaxFaults

\* before: the size of the store the call has loaded
Running(items, memory) ==
  [phase |-> "running", items |-> items, next |-> 1, memory |-> memory,
   added |-> <<>>, before |-> Len(memory.longTerm)]

Returned(result) == [phase |-> "returned", result |-> result]

\* upsertLongTermMemory up to the end of loadMemory
UpsertCall(c) ==
  /\ upserts[c].phase \in {"idle", "returned"}
  /\ \E items \in Batches :
       /\ submitted + Len(items) <= MaxIds
       /\ submitted' = submitted + Len(items)
       /\ IF items = <<>>
           THEN /\ upserts' = [upserts EXCEPT ![c] = Returned(<<>>)]
                /\ UNCHANGED <<memoryFile, memFailed>>
           ELSE \/ /\ upserts' = [upserts EXCEPT ![c] =
                                    Running(items, memoryFile)]
                   /\ UNCHANGED <<memoryFile, memFailed>>
                \/ \* readJSON fails: loadMemory writes and returns the empty
                   \* store
                   /\ MemCanFail
                   /\ memoryFile' = EmptyMemory
                   /\ memFailed' = memFailed + 1
                   /\ upserts' = [upserts EXCEPT ![c] =
                                    Running(items, EmptyMemory)]
  /\ UNCHANGED <<idLog, fnVars, pipeVars, apiVars>>

\* one candidate: its embedding, the duplicate check, the insertion
UpsertItem(c) ==
  LET call == upserts[c] IN
  /\ call.phase = "running"
  /\ call.next <= Len(call.items)
  /\ LET content == call.items[call.next] IN
     \E embedOk \in (IF content = "" THEN {TRUE}
                     ELSE {TRUE} \cup (IF MemCanFail THEN {FALSE} ELSE {})) :
       LET embedding == IF embedOk /\ content # ""
                          THEN Embedded(EmbeddingOf(content)) ELSE NoEmbedding
           r == upsertItem(call.memory, call.added, content, embedding)
       IN /\ upserts' = [upserts EXCEPT ![c] =
                           [call EXCEPT !.next = @ + 1, !.memory = r.memory,
                                        !.added = r.added]]
          /\ idLog' = IF Len(r.added) > Len(call.added)
                        THEN Append(idLog, Last(r.added).id) ELSE idLog
          /\ memFailed' = IF embedOk THEN memFailed ELSE memFailed + 1
  /\ UNCHANGED <<memoryFile, submitted, fnVars, pipeVars, apiVars>>

\* a save that reads the file again and appends what the call added to it
UpsertFinishMerging(c) ==
  LET call == upserts[c] IN
  /\ call.phase = "running"
  /\ call.next > Len(call.items)
  /\ IF call.added = <<>>
       THEN /\ upserts' = [upserts EXCEPT ![c] = Returned(<<>>)]
            /\ UNCHANGED <<memoryFile, memFailed>>
       ELSE \/ /\ memoryFile' = [longTerm |-> memoryFile.longTerm \o call.added,
                                 nextId |-> call.memory.nextId]
               /\ upserts' = [upserts EXCEPT ![c] = Returned(call.added)]
               /\ UNCHANGED memFailed
            \/ /\ MemCanFail
               /\ memFailed' = memFailed + 1
               /\ upserts' = [upserts EXCEPT ![c] = Returned(<<>>)]
               /\ UNCHANGED memoryFile
  /\ UNCHANGED <<idLog, submitted, fnVars, pipeVars, apiVars>>

\* a save that keeps the counter the call has loaded
UpsertFinishStaleCounter(c) ==
  LET call == upserts[c] IN
  /\ call.phase = "running"
  /\ call.next > Len(call.items)
  /\ IF call.added = <<>>
       THEN /\ upserts' = [upserts EXCEPT ![c] = Returned(<<>>)]
            /\ UNCHANGED <<memoryFile, memFailed>>
       ELSE \/ /\ memoryFile' = [call.memory EXCEPT !.nextId = @ - Len(call.added)]
               /\ upserts' = [upserts EXCEPT ![c] = Returned(call.added)]
               /\ UNCHANGED memFailed
            \/ /\ MemCanFail
               /\ memFailed' = memFailed + 1
               /\ upserts' = [upserts EXCEPT ![c] = Returned(<<>>)]
               /\ UNCHANGED memoryFile
  /\ UNCHANGED <<idLog, submitted, fnVars, pipeVars, apiVars>>

\* saveMemory, if anything was added, and the return
UpsertFinish(c) ==
  LET call == upserts[c] IN
  /\ call.phase = "running"
  /\ call.next > Len(call.items)
  /\ IF call.added = <<>>
       THEN /\ upserts' = [upserts EXCEPT ![c] = Returned(<<>>)]
            /\ UNCHANGED <<memoryFile, memFailed>>
       ELSE \/ /\ memoryFile' = call.memory
               /\ upserts' = [upserts EXCEPT ![c] = Returned(call.added)]
               /\ UNCHANGED memFailed
            \/ \* writeJSON fails: the catch returns the empty list
               /\ MemCanFail
               /\ memFailed' = memFailed + 1
               /\ upserts' = [upserts EXCEPT ![c] = Returned(<<>>)]
               /\ UNCHANGED memoryFile
  /\ UNCHANGED <<idLog, submitted, fnVars, pipeVars, apiVars>>

\* POST /api/memory/clear
ClearMemory ==
  /\ memoryFile # EmptyMemory
  /\ memoryFile' = EmptyMemory
  /\ UNCHANGED <<upserts, idLog, memFailed, submitted, fnVars, pipeVars, apiVars>>

MemNext ==
  \/ \E c \in Callers : UpsertCall(c)
  \/ \E c \in Callers : UpsertItem(c)
  \/ \E c \in Callers : UpsertFinish(c)
  \/ ClearMemory

MemInit == PipeIdle /\ FnIdle /\ MemIdle /\ ApiIdle

MemSpec == MemInit /\ [][MemNext]_vars

\* the upserts of two chat requests, the store not being cleared meanwhile
RaceNext ==
  \/ \E c \in Callers : UpsertCall(c)
  \/ \E c \in Callers : UpsertItem(c)
  \/ \E c \in Callers : UpsertFinish(c)

RaceSpec == MemInit /\ [][RaceNext]_vars

-----------------------------------------------------------------------------
(* retrieveLongTermMemory *)

\* what ollamaEmbed answers for the query: it throws, or it returns a list of
\* vectors, possibly empty
EmbedReply(ok, vectors) == [ok |-> ok, vectors |-> vectors]

\* the results left in the order of the store
unsorted(items) == items

\* Array.prototype.sort with (a, b) => b.similarity - a.similarity: stable,
\* descending
RECURSIVE sortBySimilarity(_)
sortBySimilarity(items) ==
  IF items = <<>> THEN <<>>
  ELSE LET sorted == sortBySimilarity(SubSeq(items, 1, Len(items) - 1))
           item == Last(items)
           \* the last item goes behind every item not below it
           ahead == { i \in 1..Len(sorted) :
                        ~SimLess(sorted[i].similarity, item.similarity) }
           at == IF ahead = {} THEN 0
                 ELSE CHOOSE i \in ahead : \A j \in ahead : j <= i
       IN SubSeq(sorted, 1, at) \o <<item>> \o SubSeq(sorted, at + 1, Len(sorted))

\* retrieval that scores the items without an embedding too
retrieveUnfiltered(memory, queryReply, k, minSim) ==
  IF memory.longTerm = <<>> THEN <<>>
  ELSE IF ~queryReply.ok \/ queryReply.vectors = <<>> THEN <<>>
  ELSE LET queryEmbedding == Embedded(queryReply.vectors[1])
           scored == [i \in 1..Len(memory.longTerm) |->
                        [id |-> memory.longTerm[i].id,
                         content |-> memory.longTerm[i].content,
                         embedding |-> memory.longTerm[i].embedding,
                         similarity |-> cosSim(queryEmbedding,
                                               memory.longTerm[i].embedding)]]
           results == SelectSeq(scored,
                        LAMBDA item : SimAtLeast(item.similarity, minSim))
       IN Take(sortBySimilarity(results), k)

\* retrieval that goes on without a query vector
retrieveWithoutGuard(memory, queryReply, k, minSim) ==
  LET queryEmbedding == IF queryReply.ok /\ queryReply.vectors # <<>>
                          THEN Embedded(queryReply.vectors[1]) ELSE NoEmbedding
      scored == [i \in 1..Len(memory.longTerm) |->
                   [id |-> memory.longTerm[i].id,
                    content |-> memory.longTerm[i].content,
                    embedding |-> memory.longTerm[i].embedding,
                    similarity |-> cosSim(queryEmbedding,
                                          memory.longTerm[i].embedding)]]
      results == SelectSeq(scored,
                   LAMBDA item : /\ item.embedding.has
                                 /\ SimAtLeast(item.similarity, minSim))
  IN Take(sortBySimilarity(results), k)

\* memory: what loadMemory returned; minSim in hundredths
retrieveLongTermMemory(memory, queryReply, k, minSim) ==
  IF memory.longTerm = <<>> THEN <<>>
  ELSE IF ~queryReply.ok \/ queryReply.vectors = <<>> THEN <<>>
  ELSE LET queryEmbedding == Embedded(queryReply.vectors[1])
           scored == [i \in 1..Len(memory.longTerm) |->
                        [id |-> memory.longTerm[i].id,
                         content |-> memory.longTerm[i].content,
                         embedding |-> memory.longTerm[i].embedding,
                         similarity |-> cosSim(queryEmbedding,
                                               memory.longTerm[i].embedding)]]
           results == SelectSeq(scored,
                        LAMBDA item : /\ item.embedding.has
                                      /\ SimAtLeast(item.similarity, minSim))
       IN Take(sortBySimilarity(results), k)

\* no two embedded items of the collection lie within the duplicate threshold
NoNearDuplicates(longTerm) ==
  \A i, j \in 1..Len(longTerm) :
    (i < j /\ longTerm[i].embedding.has /\ longTerm[j].embedding.has)
       => ~SimAbove(cosSim(longTerm[i].embedding, longTerm[j].embedding),
                    DuplicateThreshold)

\* the stores upserts leave behind: items with or without an embedding, ids
\* in order of insertion
StoredKinds == { [content |-> c, embedded |-> e] :
                   c \in Contents \ {""}, e \in BOOLEAN }

StoreOf(kinds) ==
  [longTerm |-> [i \in 1..Len(kinds) |->
                   [id |-> i, content |-> kinds[i].content,
                    embedding |-> IF kinds[i].embedded
                                    THEN Embedded(EmbeddingOf(kinds[i].content))
                                    ELSE NoEmbedding]],
   nextId |-> Len(kinds) + 1]

Stores ==
  { m \in { StoreOf(kinds) : kinds \in SeqsUpTo(StoredKinds, MaxIds) } :
      NoNearDuplicates(m.longTerm) }

QueryReplies ==
  {EmbedReply(FALSE, <<>>), EmbedReply(TRUE, <<>>)}
    \cup { EmbedReply(TRUE, <<v>>) :
             v \in {<<10, 0>>, <<5, 3>>, <<0, 1>>, <<-1, 0>>, <<1>>} }

Ks == 0..MaxK
MinSims == {0, 30, 96}

RetrieveArgs ==
  [queryReply : QueryReplies, k : Ks, minSim : MinSims]

RetrieveInit ==
  /\ PipeIdle
  /\ ApiIdle
  /\ memoryFile \in Stores
  /\ upserts = [c \in Callers |-> NoCall]
  /\ idLog = <<>>
  /\ memFailed = 0
  /\ submitted = 0
  /\ \E a \in RetrieveArgs : fnIn = <<a>>
  /\ fnOut = <<>>

CallRetrieve ==
  /\ fnOut = <<>>
  /\ \/ /\ fnOut' = <<retrieveLongTermMemory(memoryFile, fnIn[1].queryReply,
                                             fnIn[1].k, fnIn[1].minSim)>>
        /\ UNCHANGED <<memoryFile, memFailed>>
     \/ \* readJSON fails: loadMemory writes and returns the empty store
        /\ MemCanFail
        /\ memoryFile' = EmptyMemory
        /\ memFailed' = memFailed + 1
        /\ fnOut' = <<retrieveLongTermMemory(EmptyMemory, fnIn[1].queryReply,
                                             fnIn[1].k, fnIn[1].minSim)>>
  /\ UNCHANGED <<fnIn, upserts, idLog, submitted, pipeVars, apiVars>>

RetrieveNext == CallRetrieve

RetrieveSpec == RetrieveInit /\ [][RetrieveNext]_vars

-----------------------------------------------------------------------------
(* Query generation on its own *)

\* the lines a reply to the query-generation prompt is made of
ReplyLines ==
  {Line("numbered", "other"), Line("numbered", " "), Line("bullet", "other"),
   Line("bare", "1."), Line("plain", "userMessage"), Line("plain", "other"),
   Line("blank", " ")}

\* the replies to the prompt: text of up to MaxReplyLines lines around any
\* thinking blocks, or a failed call
PlanningReplies ==
  { TextReply(blocks, lines) : blocks \in 0..MaxThoughts,
                               lines \in SeqsUpTo(ReplyLines, MaxReplyLines) }
    \cup {FailedReply}

QueryArgs ==
  [query : {"userMessage"}, reply : PlanningReplies, maxQueries : 1..MaxQueries]

QueryInit ==
  PipeIdle /\ MemIdle /\ ApiIdle /\ (\E a \in QueryArgs : fnIn = <<a>>) /\ fnOut = <<>>

CallGenerateSearchQueries ==
  /\ fnOut = <<>>
  /\ fnOut' = <<generateSearchQueries(fnIn[1].query, fnIn[1].reply,
                                      fnIn[1].maxQueries)>>
  /\ UNCHANGED <<fnIn, pipeVars, memVars, apiVars>>

QueryNext == CallGenerateSearchQueries

QuerySpec == QueryInit /\ [][QueryNext]_vars

-----------------------------------------------------------------------------
(* webSearch on its own *)

\* the entries the backend puts in json.results
RawResults ==
  { RawResult(Url(1, FALSE, scheme), title) :
      scheme \in {"http", "ftp", "none"}, title \in {"text", " ", ""} }

\* what the first URL variant is answered, and what the two after it are
FirstAnswers ==
  { Answer(TRUE, results) : results \in SeqsUpTo(RawResults, MaxRaw) }
    \cup {Answer(FALSE, <<>>)}

LaterAnswers ==
  {Answer(FALSE, <<>>), Answer(TRUE, <<>>), Answer(TRUE, Catalog(MaxRaw))}

WebSearchArgs ==
  { [answers |-> <<first, second, third>>, count |-> count] :
      first \in FirstAnswers, second \in LaterAnswers, third \in LaterAnswers,
      count \in 1..MaxRaw }

WebSearchInit ==
  PipeIdle /\ MemIdle /\ ApiIdle /\ (\E a \in WebSearchArgs : fnIn = <<a>>) /\ fnOut = <<>>

\* the call in the enhanced server and the same call in server.js
CallWebSearch ==
  /\ fnOut = <<>>
  /\ fnOut' = <<[enhanced |-> webSearch(fnIn[1].answers, fnIn[1].count),
                 basic |-> webSearchBasic(fnIn[1].answers, fnIn[1].count),
                 requested |-> requestedVariants(fnIn[1].answers, fnIn[1].count),
                 requestedBasic |->
                   requestedVariantsBasic(fnIn[1].answers, fnIn[1].count)]>>
  /\ UNCHANGED <<fnIn, pipeVars, memVars, apiVars>>

WebSearchNext == CallWebSearch

WebSearchSpec == WebSearchInit /\ [][WebSearchNext]_vars

-----------------------------------------------------------------------------
(* AIThinkingEngine.determineSearchNeed on its own *)

Words ==
  { Word(text, upper) : text \in {"latest", "know", "tell"}, upper \in BOOLEAN }

\* what ollamaGenerate answers the decision prompt when it is asked
DecisionReplies ==
  { GenReply(TRUE, blocks, 0, affirm) : blocks \in 0..MaxThoughts,
                                        affirm \in BOOLEAN }
    \cup {FailedReply}

DecideArgs ==
  { [query |-> query, reply |-> reply] :
      query \in SeqsUpTo(Words, MaxWords), reply \in DecisionReplies }

DecideInit ==
  PipeIdle /\ MemIdle /\ ApiIdle /\ (\E a \in DecideArgs : fnIn = <<a>>) /\ fnOut = <<>>

\* the call; generateCalls counts the calls of ollamaGenerate it made
CallDetermineSearchNeed ==
  /\ fnOut = <<>>
  /\ LET keyword == hasSearchKeyword(fnIn[1].query) IN
     fnOut' = <<[decision |-> determineSearchNeed(keyword, fnIn[1].reply),
                 generateCalls |-> IF keyword THEN 0 ELSE 1]>>
  /\ UNCHANGED <<fnIn, pipeVars, memVars, apiVars>>

DecideNext == CallDetermineSearchNeed

DecideSpec == DecideInit /\ [][DecideNext]_vars

-----------------------------------------------------------------------------
(* SmartWebSearch.executeSearches on its own *)

\* One entry of the plan: the query and what its call of webSearch meets.
\* rejects: webSearch throws before its own try block (encodeURIComponent on
\* a query with a lone surrogate); otherwise the answers of the URL variants.
PlanStep(query, rejects, answers) ==
  [query |-> query, rejects |-> rejects, answers |-> answers]

\* the loop over the queries; calls lists the queries handed to webSearch
executeSearches(plan, count) ==
  LET F[i \in 0..Len(plan)] ==
        IF i = 0 THEN [results |-> <<>>, allSources |-> <<>>, calls |-> <<>>]
        ELSE LET step == plan[i]
                 called == [F[i - 1] EXCEPT !.calls = Append(@, step.query)]
                 searchResults == webSearch(step.answers, count)
             IN IF step.rejects THEN called
                ELSE IF Len(searchResults) > 0
                  THEN [called EXCEPT
                          !.results = Append(@, [query |-> step.query,
                                                 results |-> searchResults,
                                                 count |-> Len(searchResults)]),
                          !.allSources = @ \o searchResults]
                  ELSE called
      done == F[Len(plan)]
  IN [searchResults |-> done.results,
      allSources |-> deduplicateSources(done.allSources),
      totalSources |-> Len(done.allSources),
      calls |-> done.calls]

\* what the backend does during one call: the query rejected, every variant
\* failing, every variant empty, or results whose last URL repeats the first
\* in other letter case
PlanSteps ==
  { PlanStep(query, TRUE, SameAnswer(FALSE, <<>>)) : query \in Queries }
    \cup { PlanStep(query, FALSE, answers) :
             query \in Queries,
             answers \in { SameAnswer(FALSE, <<>>), SameAnswer(TRUE, <<>>),
                           SameAnswer(TRUE, Catalog(1)),
                           SameAnswer(TRUE, Catalog(NSites + 1)) } }

ExecuteArgs ==
  { [plan |-> plan, count |-> SearchCount] : plan \in SeqsUpTo(PlanSteps, MaxPlan) }

ExecuteInit ==
  PipeIdle /\ MemIdle /\ ApiIdle /\ (\E a \in ExecuteArgs : fnIn = <<a>>) /\ fnOut = <<>>

CallExecuteSearches ==
  /\ fnOut = <<>>
  /\ fnOut' = <<executeSearches(fnIn[1].plan, fnIn[1].count)>>
  /\ UNCHANGED <<fnIn, pipeVars, memVars, apiVars>>

ExecuteNext == CallExecuteSearches

ExecuteSpec == ExecuteInit /\ [][ExecuteNext]_vars

-----------------------------------------------------------------------------
(* fetchAndClean on its own *)

\* What a fetch of a page meets. connect: "timeout" (the timer aborts the
\* fetch), "network" (the fetch rejects), "status" (not ok), "type" (not
\* text/html) or "html". bodyFails: reading or parsing the body throws.
\* length: the characters of the extracted text once white space is collapsed
\* and the ends are trimmed.
PageFetch(connect, bodyFails, length) ==
  [connect |-> connect, bodyFails |-> bodyFails, length |-> length]

\* the outcome of a call: thrown, or returned with a text of that length
Outcome(threw, length) == [threw |-> threw, length |-> length]

\* a fetch that reports its timeout to the caller
fetchAndCleanRethrowing(fetched, limit) ==
  IF fetched.connect = "timeout" THEN Outcome(TRUE, 0)
  ELSE IF fetched.connect # "html" \/ fetched.bodyFails THEN Outcome(FALSE, 0)
  ELSE Outcome(FALSE, Min(fetched.length, limit))

\* the try block and its catch; limit is the argument of the last slice
fetchAndClean(fetched, limit) ==
  IF fetched.connect \in {"timeout", "network"} THEN Outcome(FALSE, 0)
  ELSE IF fetched.connect \in {"status", "type"} THEN Outcome(FALSE, 0)
  ELSE IF fetched.bodyFails THEN Outcome(FALSE, 0)
  ELSE Outcome(FALSE, Min(fetched.length, limit))

PageFetches ==
  { PageFetch(connect, bodyFails, length) :
      connect \in {"timeout", "network", "status", "type", "html"},
      bodyFails \in BOOLEAN,
      length \in {0, MinContentLength, MaxContentLengthBasic,
                   MaxContentLengthBasic + 1, MaxContentLength,
                   MaxContentLength + 1} }

FetchInit ==
  PipeIdle /\ MemIdle /\ ApiIdle /\ (\E f \in PageFetches : fnIn = <<f>>) /\ fnOut = <<>>

\* the call in the enhanced server and the same call in server.js
CallFetchAndClean ==
  /\ fnOut = <<>>
  /\ fnOut' = <<[enhanced |-> fetchAndClean(fnIn[1], MaxContentLength),
                 basic |-> fetchAndClean(fnIn[1], MaxContentLengthBasic)]>>
  /\ UNCHANGED <<fnIn, pipeVars, memVars, apiVars>>

FetchNext == CallFetchAndClean

FetchSpec == FetchInit /\ [][FetchNext]_vars

-----------------------------------------------------------------------------
(* upsertLongTermMemory of the basic server *)

\* a content string: its word ("" when it has none), whether it has capital
\* letters and whether white space surrounds it
Typed(word, upper, padded) == [word |-> word, upper |-> upper, padded |-> padded]

trim(text) == [text EXCEPT !.padded = FALSE]

BasicContents ==
  { Typed(w, u, p) : w \in {"u", "v"}, u \in BOOLEAN, p \in BOOLEAN }
    \cup { Typed("", FALSE, p) : p \in BOOLEAN }

BasicBatches == SeqsUpTo(BasicContents, MaxBatch)

\* existing is the set of the stored contents, trimmed and lower-cased, taken
\* once before the filter; every candidate that passes is pushed with the
\* next id
upsertLongTermMemoryBasic(mem, items) ==
  LET trimmed == [i \in 1..Len(items) |-> trim(items[i])]
      existing == { toLowerCase(trim(mem.longTerm[i].content)) :
                      i \in 1..Len(mem.longTerm) }
      isNew(c) == c.word # "" /\ toLowerCase(c) \notin existing
      newOnes == SelectSeq(trimmed, isNew)
      pushed == [idx \in 1..Len(newOnes) |->
                   [id |-> mem.nextId + idx - 1, content |-> newOnes[idx],
                    embedding |-> Embedded(EmbeddingOf(newOnes[idx].word))]]
  IN [memory |-> [longTerm |-> mem.longTerm \o pushed,
                  nextId |-> mem.nextId + Len(newOnes)],
      added |-> newOnes]

BasicMemInit == PipeIdle /\ FnIdle /\ MemIdle /\ ApiIdle

\* one call of upsertLongTermMemory: it returns the candidates it has added,
\* or readJSON, ollamaEmbed or writeJSON rejects and memory.json is as before
CallUpsertBasic ==
  \E items \in BasicBatches :
    /\ submitted + Len(items) <= MaxIds
    /\ submitted' = submitted + Len(items)
    /\ \/ LET r == upsertLongTermMemoryBasic(memoryFile, items) IN
           /\ memoryFile' = r.memory
           /\ fnOut' = <<[threw |-> FALSE, items |-> items, added |-> r.added]>>
           /\ UNCHANGED memFailed
       \/ /\ items # <<>>
          /\ MemCanFail
          /\ memFailed' = memFailed + 1
          /\ fnOut' = <<[threw |-> TRUE, items |-> items, added |-> <<>>]>>
          /\ UNCHANGED memoryFile
    /\ UNCHANGED <<fnIn, upserts, idLog, pipeVars, apiVars>>

BasicMemNext == CallUpsertBasic

BasicMemSpec == BasicMemInit /\ [][BasicMemNext]_vars

-----------------------------------------------------------------------------
(* A backend operation of a streamed request and its timeout *)

\* ollamaChat with the reader loop, ollamaGenerate, ollamaEmbed, fetchAndClean
\* and webSearch
OperationKinds == {"chat", "generate", "embed", "page", "search"}

\* the operations whose failure is thrown to the caller; the other two return
\* an empty result
Throwing == {"chat", "generate", "embed"}

\* The operation after setTimeout and before fetch has answered. phase:
\* "connecting" while fetch is awaited, "reading" while the body is awaited,
\* then "returned" or "thrown". timer: "armed", "cleared" or "fired".
\* status: whether response.ok held. variant: the search URL in use.
\* terminal: the terminal event of the request, "none" until it is emitted.
Operation(kind) ==
  [phase |-> "connecting", kind |-> kind, timer |-> "armed", elapsed |-> 0,
   status |-> "ok", variant |-> 1, chunks |-> 0, terminal |-> "none"]

InFlight == netCall.phase \in {"connecting", "reading"}

\* the operation rejects or is aborted: the three that throw do so; the
\* catch of fetchAndClean returns the empty text; the inner catch of webSearch
\* goes on to the next URL, and after the last one webSearch returns no
\* results
AfterFailure(op, aborted) ==
  IF op.kind \in Throwing THEN [op EXCEPT !.phase = "thrown"]
  ELSE IF op.kind = "page" THEN [op EXCEPT !.phase = "returned"]
  ELSE IF aborted \/ op.variant = 3
    THEN [op EXCEPT !.phase = "returned",
                    !.timer = IF @ = "armed" THEN "cleared" ELSE @]
  ELSE [op EXCEPT !.phase = "connecting", !.variant = @ + 1]

\* time passes while the timer is armed
Tick ==
  /\ InFlight
  /\ netCall.timer = "armed"
  /\ netCall.elapsed < MaxWait
  /\ netCall' = [netCall EXCEPT !.elapsed = @ + 1]
  /\ UNCHANGED <<pipeVars, fnVars, memVars, sessVars, clientGone>>

\* the timeout expires: controller.abort() rejects the pending fetch or read
TimerFires ==
  /\ InFlight
  /\ netCall.timer = "armed"
  /\ netCall.elapsed = MaxWait
  /\ netCall' = AfterFailure([netCall EXCEPT !.timer = "fired"], TRUE)
  /\ UNCHANGED <<pipeVars, fnVars, memVars, sessVars, clientGone>>

\* fetch resolves with the response headers
HeadersArrive ==
  /\ netCall.phase = "connecting"
  /\ \E ok \in BOOLEAN :
       netCall' =
         IF netCall.kind = "search"
           THEN \* the timer stays armed until the body has been parsed
                IF ok THEN [netCall EXCEPT !.phase = "reading"]
                ELSE AfterFailure(netCall, FALSE)
           ELSE LET cleared == [netCall EXCEPT !.timer = "cleared"] IN
                IF ok THEN [cleared EXCEPT !.phase = "reading"]
                ELSE IF netCall.kind \in {"chat", "generate"}
                  THEN \* the error text is read before the throw
                       [cleared EXCEPT !.phase = "reading", !.status = "bad"]
                ELSE AfterFailure(cleared, FALSE)
  /\ UNCHANGED <<pipeVars, fnVars, memVars, sessVars, clientGone>>

\* reader.read() resolves with one more piece of the chat stream
BodyChunk ==
  /\ netCall.phase = "reading"
  /\ netCall.kind = "chat"
  /\ netCall.status = "ok"
  /\ netCall.chunks < MaxLines
  /\ netCall' = [netCall EXCEPT !.chunks = @ + 1]
  /\ UNCHANGED <<pipeVars, fnVars, memVars, sessVars, clientGone>>

\* the body has arrived in full
BodyEnds ==
  /\ netCall.phase = "reading"
  /\ \E empty \in BOOLEAN :
       netCall' =
         IF netCall.status = "bad" THEN [netCall EXCEPT !.phase = "thrown"]
         ELSE IF netCall.kind # "search" THEN [netCall EXCEPT !.phase = "returned"]
         ELSE LET cleared == [netCall EXCEPT !.timer = "cleared"] IN
              IF ~empty \/ netCall.variant = 3
                THEN [cleared EXCEPT !.phase = "returned"]
                ELSE [cleared EXCEPT !.phase = "connecting", !.variant = @ + 1]
  /\ UNCHANGED <<pipeVars, fnVars, memVars, sessVars, clientGone>>

\* the connection breaks: the pending fetch or read rejects
ConnectionBreaks ==
  /\ InFlight
  /\ netCall' = IF netCall.status = "bad"
                  THEN [netCall EXCEPT !.phase = "thrown"]
                  ELSE AfterFailure(netCall, FALSE)
  /\ UNCHANGED <<pipeVars, fnVars, memVars, sessVars, clientGone>>

\* the request goes on to its terminal event: error when the chat call has
\* thrown, complete otherwise
EndRequest ==
  /\ netCall.phase \in {"returned", "thrown"}
  /\ netCall.terminal = "none"
  /\ netCall' = [netCall EXCEPT !.terminal =
                   IF netCall.kind = "chat" /\ netCall.phase = "thrown"
                     THEN "error" ELSE "complete"]
  /\ UNCHANGED <<pipeVars, fnVars, memVars, sessVars, clientGone>>

StallInit ==
  /\ PipeIdle /\ FnIdle /\ MemIdle /\ SessIdle /\ clientGone = FALSE
  /\ \E kind \in OperationKinds : netCall = Operation(kind)

StallNext ==
  \/ Tick
  \/ TimerFires
  \/ HeadersArrive
  \/ BodyChunk
  \/ BodyEnds
  \/ ConnectionBreaks
  \/ EndRequest

\* time passes, an armed timer fires and the handler runs on; nothing makes
\* a backend answer
StallSpec ==
  /\ StallInit
  /\ [][StallNext]_vars
  /\ WF_vars(Tick)
  /\ WF_vars(TimerFires)
  /\ WF_vars(EndRequest)

-----------------------------------------------------------------------------
(* The sessions endpoints and the input check of the chat endpoint *)

ApiCanFail == apiFaults < MaxFaults

\* A session file: "absent", "new" as createSession writes it, "default" as
\* the catch of loadSession writes it, "used" after a chat turn was saved.
Exists(id) == sessionsDir[id] # "absent"

\* an answer: the endpoint, the session id of the request, the status, and
\* whether the file of the session was there when the request arrived
Response(op, id, status, found) ==
  [op |-> op, id |-> id, status |-> status, found |-> found]

\* loadSession: the file as it is after the call, and whether the call threw.
\* readOk: readJSON succeeded; writeOk: the writeJSON of the catch succeeded
loadSession(id, readOk, writeOk) ==
  IF Exists(id) /\ readOk THEN [file |-> sessionsDir[id], threw |-> FALSE]
  ELSE IF writeOk THEN [file |-> "default", threw |-> FALSE]
  ELSE [file |-> sessionsDir[id], threw |-> TRUE]

\* the file operations of a request on session id: whether readJSON succeeds
\* (it cannot on an absent file) and whether a writeJSON does
DiskFaults(id, outcome) ==
  (IF Exists(id) /\ ~outcome.readOk THEN 1 ELSE 0)
    + (IF ~outcome.writeOk THEN 1 ELSE 0)

DiskOutcomes(id) ==
  { outcome \in [readOk : BOOLEAN, writeOk : BOOLEAN] :
      /\ ~Exists(id) => ~outcome.readOk
      /\ apiFaults + DiskFaults(id, outcome) <= MaxFaults }

\* loadSession does not write when it has read the file
Writes(id, outcome) == ~(Exists(id) /\ outcome.readOk)

\* POST /api/sessions
CreateSession ==
  /\ \E id \in SessionIds :
       /\ ~Exists(id)
       /\ id \notin deletedIds
       /\ \/ /\ sessionsDir' = [sessionsDir EXCEPT ![id] = "new"]
             /\ httpResponse' = Response("create", id, 200, FALSE)
             /\ UNCHANGED apiFaults
          \/ /\ ApiCanFail
             /\ apiFaults' = apiFaults + 1
             /\ httpResponse' = Response("create", id, 500, FALSE)
             /\ UNCHANGED sessionsDir
  /\ UNCHANGED <<deletedIds, netCall, clientGone, pipeVars, fnVars, memVars>>

\* GET /api/sessions/:id
GetSession ==
  /\ \E id \in SessionIds :
     \E outcome \in { o \in DiskOutcomes(id) : ~o.writeOk => Writes(id, o) } :
       LET loaded == loadSession(id, outcome.readOk, outcome.writeOk) IN
       /\ sessionsDir' = [sessionsDir EXCEPT ![id] = loaded.file]
       /\ httpResponse' = Response("get", id, IF loaded.threw THEN 500 ELSE 200,
                                Exists(id))
       /\ apiFaults' = apiFaults + DiskFaults(id, outcome)
  /\ UNCHANGED <<deletedIds, netCall, clientGone, pipeVars, fnVars, memVars>>

\* DELETE /api/sessions/:id
DeleteSession ==
  /\ \E id \in SessionIds :
       IF Exists(id)
         THEN /\ sessionsDir' = [sessionsDir EXCEPT ![id] = "absent"]
              /\ deletedIds' = deletedIds \cup {id}
              /\ httpResponse' = Response("delete", id, 200, TRUE)
         ELSE /\ httpResponse' = Response("delete", id, 404, FALSE)
              /\ UNCHANGED <<sessionsDir, deletedIds>>
  /\ UNCHANGED <<apiFaults, netCall, clientGone, pipeVars, fnVars, memVars>>

\* The body of a chat request. sessionId: "none" (not given), "empty",
\* "long" (over 100 characters) or "id", the id being body.id. message:
\* "none", "empty", "long" (over 10000 characters) or "text". model: "none"
\* or "number" (not a string).
ChatBodies ==
  { body \in [sessionId : {"none", "empty", "long", "id"}, id : SessionIds,
              message : {"none", "empty", "long", "text"},
              model : {"none", "number"}] :
      body.sessionId # "id" => body.id = 1 }

\* an input check that looks at the session id only
validateSessionIdOnly(body) ==
  IF body.sessionId # "id" THEN "Invalid sessionId" ELSE "next"

\* the middleware in front of the chat handler: the error it answers 400
\* with, or "next"
validateChatInput(body) ==
  IF body.sessionId # "id" THEN "Invalid sessionId"
  ELSE IF body.message # "text" THEN "Invalid message length"
  ELSE IF body.model = "number" THEN "Invalid model parameter"
  ELSE "next"

\* the check at the head of the chat handler of server.js
requiredFieldsBasic(body) ==
  IF body.sessionId \in {"none", "empty"} \/ body.message \in {"none", "empty"}
    THEN "sessionId and message required" ELSE "next"

\* the answer to a chat request: the body, the status, and whether the
\* handler ran (backends were called and events were streamed); basicNext:
\* whether the check of server.js let the same request through
ChatResponse(body, status, found, handled, basicNext) ==
  [op |-> "chat", id |-> body.id,
   body |-> [sessionId |-> body.sessionId, message |-> body.message],
   status |-> status, found |-> found, handled |-> handled,
   basicNext |-> basicNext]

\* POST /api/chat: the input check, then loadSession and the turn
PostChat ==
  /\ \E body \in ChatBodies :
       LET id == body.id
           basicNext == requiredFieldsBasic(body) = "next"
       IN
       IF validateChatInput(body) # "next"
         THEN /\ httpResponse' = ChatResponse(body, 400, Exists(id), FALSE,
                                                basicNext)
              /\ UNCHANGED <<sessionsDir, apiFaults>>
         ELSE \E outcome \in DiskOutcomes(id) :
                LET loaded == loadSession(id, outcome.readOk, outcome.writeOk)
                    saved == ~loaded.threw /\ outcome.writeOk
                IN
                /\ sessionsDir' = [sessionsDir EXCEPT ![id] =
                                     IF saved THEN "used" ELSE loaded.file]
                /\ httpResponse' = ChatResponse(body,
                                     IF loaded.threw THEN 500 ELSE 200,
                                     Exists(id), ~loaded.threw, basicNext)
                /\ apiFaults' = apiFaults + DiskFaults(id, outcome)
  /\ UNCHANGED <<deletedIds, netCall, clientGone, pipeVars, fnVars, memVars>>

SessionInit == PipeIdle /\ FnIdle /\ MemIdle /\ ApiIdle

SessionNext ==
  \/ CreateSession
  \/ GetSession
  \/ DeleteSession
  \/ PostChat

SessionSpec == SessionInit /\ [][SessionNext]_vars

-----------------------------------------------------------------------------
(* Reading the event stream *)

EventsNamed(names) == { i \in 1..Len(events) : events[i].event \in names }

TerminalEvents == { i \in 1..Len(events) : IsTerminal(events[i]) }

Failures == { failed[i] : i \in 1..Len(failed) }

\* the failures that end the request: the answer-producing chat call and the
\* session store
Fatal == {"chat", "session"}

Finished == pc = "done"

EndsWith(name) == Len(events) > 0 /\ Last(events).event = name

-----------------------------------------------------------------------------
(* Claims about the streamed request *)

\* C1: the stream of a request holds at most one terminal event (complete or
\* error), never both and none twice; no event follows it; and a stream that
\* has ended ends with it.
C1_OneTerminalEvent ==
  /\ Cardinality(TerminalEvents) <= 1
  /\ \A i \in TerminalEvents : i = Len(events)
  /\ TerminalEvents # {} => Finished
  /\ Finished => TerminalEvents # {}

\* a stream that broke while the answer was being read ends with error
C1_Witness ==
  /\ Finished
  /\ EndsWith("error")
  /\ EventsNamed({"response_chunk"}) # {}

\* C2: as long as neither the answer-producing chat call nor the session store
\* has failed, no error event is emitted, whatever else failed; and the request
\* that has ended has delivered its answer and ends with complete.
C2_FailuresAbsorbed ==
  (Failures \cap Fatal = {}) =>
     /\ EventsNamed({"error"}) = {}
     /\ pc # "http500"
     /\ Finished =>
          /\ EndsWith("complete")
          /\ EventsNamed({"response_start"}) # {}
          /\ EventsNamed({"response_complete"}) # {}
          /\ (\E i \in 1..Len(streamed) : streamed[i] = "text")
                => EventsNamed({"response_chunk"}) # {}

\* a request with a failed backend call has completed
C2_Witness ==
  /\ Finished
  /\ Failures # {}
  /\ Failures \cap Fatal = {}
  /\ EndsWith("complete")

\* C3: when the search decision says no search is needed, or automatic search
\* is off, or a file is attached, the request emits no search_start, no
\* search_results and no content_processing event, and its complete event has
\* usedSearch = FALSE.
C3_NoSearchEvents ==
  (~searchDecision.needsSearch \/ ~req.autoSearch \/ req.fileContent) =>
     /\ EventsNamed({"search_start", "search_results", "content_processing"}) = {}
     /\ \A i \in EventsNamed({"complete"}) : ~events[i].usedSearch

\* the decision ran, said no, and the request completed
C3_Witness ==
  /\ Finished
  /\ EndsWith("complete")
  /\ EventsNamed({"thinking_update"}) # {}
  /\ \E i \in 1..Len(events) :
       events[i] = PhaseEv("thinking_update", "search_decision")
  /\ ~searchDecision.needsSearch

\* the place of an event in the canonical order of a search-using turn;
\* 0 for the events the order does not mention
Rank(e) ==
  IF e.event \in {"thinking_start", "thinking_update"}
    THEN LET first == CASE e.phase = "analysis" -> 1
                        [] e.phase = "search_decision" -> 3
                        [] e.phase = "search_planning" -> 5
                        [] e.phase = "evaluation" -> 12
                        [] OTHER -> 0
         IN IF first = 0 THEN 0
            ELSE IF e.event = "thinking_start" THEN first ELSE first + 1
    ELSE CASE e.event \in {"search_start", "search_results"} -> 7
           [] e.event = "content_processing" -> 8
           [] e.event = "response_generation" -> 9
           [] e.event = "response_chunk" -> 10
           [] e.event = "response_complete" -> 11
           [] e.event = "complete" -> 14
           [] OTHER -> 0

\* C4: in a search-using turn the events follow the canonical order analysis,
\* search_decision, search_planning, search rounds, content_processing,
\* response_generation, response_chunk, response_complete, evaluation,
\* complete: no event of a later phase comes before an event of an earlier one.
C4_CanonicalOrder ==
  usedSearch =>
    \A i, j \in 1..Len(events) :
      (i < j /\ Rank(events[i]) > 0 /\ Rank(events[j]) > 0)
         => Rank(events[i]) <= Rank(events[j])

\* what the search path of a request has met
SearchPositive == searchDecision.needsSearch /\ Len(allSearchResults) > 0

FetchedEnough == \E i \in 1..Len(contentResults) : contentResults[i] > MinContentLength

StreamedChunk == Len(streamed) > 0

StreamedText == \E i \in 1..Len(streamed) : streamed[i] # "think"

SearchOutcome ==
  /\ EventsNamed({"search_start"}) # {}
  /\ EventsNamed({"response_chunk"}) # {}
  /\ EndsWith("complete")
  /\ Last(events).usedSearch
  /\ Last(events).sources > 0

C6_CompleteCounters ==
  \A i \in EventsNamed({"complete"}) :
    /\ DOMAIN events[i] = {"event", "usedSearch", "sources", "thoughts",
                           "memoryAdded", "processingTime", "searchQueries"}
    /\ events[i].usedSearch = usedSearch
    /\ events[i].sources = Len(sources)
    /\ events[i].thoughts = Len(allThoughts)
    /\ events[i].memoryAdded = Len(memoryAdded)
    /\ events[i].processingTime = clock
    /\ events[i].searchQueries = searchQueries

\* a degraded search turn with Thoughts, sources and a memory item completed
C6_Witness ==
  /\ EndsWith("complete")
  /\ Len(allThoughts) > 0
  /\ Len(sources) > 0
  /\ Len(memoryAdded) > 0
  /\ Failures # {}

\* the phases whose failure does not end the request, by the name a failure
\* of theirs is recorded under
NonTerminalPhases ==
  {"analysis", "search_decision", "search_planning", "search_round", "fetch",
   "evaluation"}

\* C7: whenever query analysis, the search decision, search planning, a search
\* round, content processing or evaluation fails, an error Thought about that
\* failure is in the Thought sequence of the request.
C7_ErrorThoughtOnFailure ==
  \A i \in 1..Len(failed) :
    failed[i] \in NonTerminalPhases =>
      \E k \in 1..Len(allThoughts) : allThoughts[k] = Thought("error", failed[i])

-----------------------------------------------------------------------------
(* Claims about the search rounds *)

\* the rule of the continuation decision, by result count and complexity
ContinueTable(count, complexity) ==
  \/ count = 0
  \/ count \in 1..2 /\ complexity = "high"
  \/ count \in 3..7 /\ complexity = "high" /\ count < 5

\* C8: shouldContinueSearching depends on the accumulated result count and the
\* complexity label only: 0 results continue; 1 or 2 continue only for high
\* complexity; 3 to 7 continue only for high complexity and a count below 5;
\* 8 or more stop.
C8_ContinueTable ==
  fnOut # <<>> =>
    LET arg == fnIn[1]
        count == IF arg.currentResults.isArray THEN arg.currentResults.length
                 ELSE 0
    IN /\ fnOut[1].shouldContinue = ContinueTable(count, arg.complexity)
       /\ fnOut[1].resultCount = count
       /\ count >= 8 => ~fnOut[1].shouldContinue

\* four results under high complexity continue, in the 3 to 7 band
C8_Witness ==
  /\ fnOut # <<>>
  /\ fnIn[1].currentResults = [isArray |-> TRUE, length |-> 4]
  /\ fnIn[1].complexity = "high"
  /\ fnOut[1].shouldContinue

SearchStarts == EventsNamed({"search_start"})

\* the loop over the planned queries has been entered and left
LoopLeft == usedSearch /\ pc \notin {"search_decision", "search_planning", "search_round"}

StoppedByDecision ==
  Len(continueLog) > 0 /\ ~Last(continueLog).shouldContinue

C9_LoopState ==
  /\ Len(searchQueries) <= MaxQueries
  /\ Cardinality(SearchStarts) <= Len(searchQueries)
  \* round k issues the k-th planned query, once
  /\ \A i \in SearchStarts :
       LET k == Cardinality({ j \in SearchStarts : j <= i }) IN
       /\ events[i].round = k
       /\ events[i].query = searchQueries[k]
  \* a decision follows every round that has a next query
  /\ Len(continueLog) = IF Len(searchQueries) = 0 THEN 0
                        ELSE Min(Cardinality(SearchStarts), Len(searchQueries) - 1)
  \* only the last decision can be stop, and it ends the loop
  /\ \A i \in 1..(Len(continueLog) - 1) : continueLog[i].shouldContinue
  /\ StoppedByDecision => /\ LoopLeft
                          /\ Cardinality(SearchStarts) = Len(continueLog)
  /\ LoopLeft => \/ StoppedByDecision
                 \/ Cardinality(SearchStarts) = Len(searchQueries)
  /\ pc = "search_round" => searchRound <= Len(searchQueries)

\* a round that stays in the loop moves to the next planned query
C9_LoopStep ==
  (pc = "search_round" /\ pc' = "search_round") =>
     /\ searchRound' = searchRound + 1
     /\ searchQueries' = searchQueries

NoDuplicateUrls(results) ==
  \A i, j \in 1..Len(results) :
    toLowerCase(results[i].url) = toLowerCase(results[j].url) => i = j

\* C10: the search results of one request hold no duplicate URLs, compared
\* lower-cased: neither the results accumulated over the rounds, nor the
\* results selected for content processing, nor the sources of the turn.
C10_NoDuplicateUrls ==
  /\ NoDuplicateUrls(allSearchResults)
  /\ NoDuplicateUrls(Take(allSearchResults, TopResults))
  /\ NoDuplicateUrls(sources)

-----------------------------------------------------------------------------
(* Claims about the long-term memory store *)

\* the collections in being: the file and the copy of every call in progress
Collections ==
  {memoryFile.longTerm}
    \cup { upserts[c].memory.longTerm : c \in { d \in Callers : upserts[d].phase = "running" } }

\* caller c has just handled one candidate
ItemStep(c) ==
  /\ upserts[c].phase = "running"
  /\ upserts'[c].phase = "running"
  /\ upserts'[c].next = upserts[c].next + 1

\* the candidate of that step, and whether its embedding was computed
Candidate(c) == upserts[c].items[upserts[c].next]
EmbeddingFailed == memFailed' = memFailed + 1

\* the candidate lies within the duplicate threshold of an item the call's
\* collection holds
NearExisting(c) ==
  \E i \in 1..Len(upserts[c].memory.longTerm) :
    LET existing == upserts[c].memory.longTerm[i] IN
    /\ existing.embedding.has
    /\ SimAbove(cosSim(Embedded(EmbeddingOf(Candidate(c))), existing.embedding),
                DuplicateThreshold)

C11_SuppressStep ==
  \A c \in Callers :
    (ItemStep(c) /\ Candidate(c) # "" /\ ~EmbeddingFailed /\ NearExisting(c)) =>
       /\ upserts'[c].memory = upserts[c].memory
       /\ upserts'[c].added = upserts[c].added

\* C11: after any sequence of upserts and clears no collection holds two
\* embedded items with cosine similarity above 0.95; a candidate that similar
\* to an item of the collection, one inserted earlier in the same call
\* included, is suppressed and the collection is left as it was.
C11_NoNearDuplicates ==
  /\ [](\A longTerm \in Collections : NoNearDuplicates(longTerm))
  /\ [][C11_SuppressStep]_vars

\* the second candidate of a call was suppressed for the first
C11_Witness ==
  \E c \in Callers :
    /\ upserts[c].phase = "running"
    /\ upserts[c].items = <<"u", "v">>
    /\ upserts[c].next = 3
    /\ memFailed = 0
    /\ Len(upserts[c].added) = 1

\* C12: over any sequence of upserts and clears every id given to a memory
\* item is greater than every id given before it: nextId only grows and no id
\* is used twice, deletions included.
C12_IdsNeverReused ==
  \A i, j \in 1..Len(idLog) : i < j => idLog[i] < idLog[j]

\* the ids a collection holds
IdsOf(longTerm) == { longTerm[i].id : i \in 1..Len(longTerm) }

\* the step of one candidate: a rejected candidate leaves the call's
\* collection and its list of additions as they were; any other one is
\* appended to both under the next unused id
C13_ItemStep ==
  \A c \in Callers :
    ItemStep(c) =>
      LET memory == upserts[c].memory
          after == upserts'[c].memory
          rejected == \/ Candidate(c) = ""
                      \/ ~EmbeddingFailed /\ NearExisting(c)
      IN IF rejected
           THEN /\ after = memory
                /\ upserts'[c].added = upserts[c].added
           ELSE /\ Len(after.longTerm) = Len(memory.longTerm) + 1
                /\ SubSeq(after.longTerm, 1, Len(memory.longTerm)) = memory.longTerm
                /\ Last(after.longTerm).content = Candidate(c)
                /\ Last(after.longTerm).id = memory.nextId
                /\ Last(after.longTerm).id \notin IdsOf(memory.longTerm)
                /\ after.nextId = memory.nextId + 1
                /\ upserts'[c].added = Append(upserts[c].added, Last(after.longTerm))

\* the return of a call: what it returns is what it inserted, and the store
\* has grown from the size the call loaded by the length of the result
C13_ReturnStep ==
  \A c \in Callers :
    (upserts[c].phase # "returned" /\ upserts'[c].phase = "returned") =>
      LET result == upserts'[c].result IN
      IF result = <<>>
        THEN memoryFile' = memoryFile
        ELSE /\ result = upserts[c].added
             /\ memoryFile' = upserts[c].memory
             /\ Len(memoryFile'.longTerm) = upserts[c].before + Len(result)
             /\ \A i \in 1..Len(result) :
                  memoryFile'.longTerm[upserts[c].before + i] = result[i]

C14_FailedEmbeddingStep ==
  \A c \in Callers :
    (upserts[c].phase = "running" /\ upserts'[c] # upserts[c]
       /\ upserts[c].next <= Len(upserts[c].items) /\ EmbeddingFailed) =>
      /\ ItemStep(c)
      /\ Len(upserts'[c].memory.longTerm) = Len(upserts[c].memory.longTerm) + 1
      /\ Last(upserts'[c].memory.longTerm).content = Candidate(c)
      /\ ~Last(upserts'[c].memory.longTerm).embedding.has
      /\ Last(upserts'[c].added) = Last(upserts'[c].memory.longTerm)

\* what retrieve returns from a collection never holds an item without an
\* embedding
RetrievesOnlyEmbedded(memory) ==
  \A queryReply \in QueryReplies, k \in Ks, minSim \in MinSims :
    LET results == retrieveLongTermMemory(memory, queryReply, k, minSim)
    IN \A i \in 1..Len(results) : results[i].embedding.has

\* C14: a candidate whose embedding fails is still inserted, without an
\* embedding, and the upsert goes on with the candidates that remain; no
\* query, k and minSimilarity make retrieve return an item stored without an
\* embedding.
C14_EmbeddingFailure ==
  /\ [][C14_FailedEmbeddingStep]_vars
  /\ [](RetrievesOnlyEmbedded(memoryFile))

\* one call stored a candidate whose embedding failed and then the next
\* candidate with its embedding, which alone a query retrieves
C14_Witness ==
  \E c \in Callers :
    /\ upserts[c].phase = "returned"
    /\ Len(upserts[c].result) = 2
    /\ memoryFile.longTerm = upserts[c].result
    /\ ~memoryFile.longTerm[1].embedding.has
    /\ memoryFile.longTerm[2].embedding.has
    /\ Len(retrieveLongTermMemory(memoryFile, EmbedReply(TRUE, <<<<10, 0>>>>),
                                  MaxK, 0)) = 1

-----------------------------------------------------------------------------
(* Claims about retrieval *)

\* the call of retrieveLongTermMemory has returned
Retrieved == fnOut # <<>>

\* the similarity of a stored item to the query of the call
SimilarityTo(queryReply, item) ==
  cosSim(Embedded(queryReply.vectors[1]), item.embedding)

\* C15: retrieve returns at most k items, each with a similarity of at least
\* minSimilarity, in non-increasing order of similarity with ties in the
\* order of insertion, and no embedded item of the store it leaves out has a
\* higher similarity than one it returns.
C15_RetrieveTopK ==
  Retrieved =>
    LET results == fnOut[1]
        args == fnIn[1]
        longTerm == memoryFile.longTerm
    IN /\ Len(results) <= args.k
       /\ \A i \in 1..Len(results) :
            /\ SimAtLeast(results[i].similarity, args.minSim)
            /\ \E n \in 1..Len(longTerm) :
                 /\ longTerm[n].id = results[i].id
                 /\ longTerm[n].content = results[i].content
                 /\ longTerm[n].embedding.has
                 /\ SimilarityTo(args.queryReply, longTerm[n]) = results[i].similarity
       /\ \A i, j \in 1..Len(results) :
            i < j =>
              /\ ~SimLess(results[i].similarity, results[j].similarity)
              /\ ~SimLess(results[j].similarity, results[i].similarity)
                   => results[i].id < results[j].id
       /\ results # <<>> =>
            \A n \in 1..Len(longTerm) :
              (longTerm[n].embedding.has
                 /\ longTerm[n].id \notin IdsOf(results)) =>
                \A i \in 1..Len(results) :
                  ~SimLess(results[i].similarity,
                           SimilarityTo(args.queryReply, longTerm[n]))

\* of two stored items that both qualify, the one stored second is the more
\* similar and is the one returned for k = 1
C15_Witness ==
  /\ Retrieved
  /\ fnIn[1].k = 1
  /\ Len(fnOut[1]) = 1
  /\ fnOut[1][1].id = 2
  /\ memoryFile.longTerm[1].embedding.has
  /\ SimAtLeast(SimilarityTo(fnIn[1].queryReply, memoryFile.longTerm[1]),
                fnIn[1].minSim)

\* C16: when the store is empty, or the embedding of the query fails, times
\* out or gives no vector, retrieve returns the empty sequence, and no error
\* reaches the caller.
C16_RetrieveFailsSoftly ==
  (/\ Retrieved
   /\ \/ memoryFile.longTerm = <<>>
      \/ ~fnIn[1].queryReply.ok
      \/ fnIn[1].queryReply.vectors = <<>>)
    => fnOut[1] = <<>>

\* the embedding of the query failed over a store whose items a query with
\* these k and minSimilarity can retrieve
C16_Witness ==
  /\ Retrieved
  /\ fnOut[1] = <<>>
  /\ ~fnIn[1].queryReply.ok
  /\ retrieveLongTermMemory(memoryFile, EmbedReply(TRUE, <<<<1>>>>),
                            fnIn[1].k, fnIn[1].minSim) # <<>>

-----------------------------------------------------------------------------
(* Claims about query generation *)

\* the call of generateSearchQueries has returned
Generated == fnOut # <<>>

\* C17: generateSearchQueries never returns an empty sequence: whatever the
\* generation backend replies, an empty reply, a reply without list lines and
\* a failed or timed-out call included, it returns between 1 and maxQueries
\* queries.
C17_QueriesNeverEmpty ==
  Generated =>
    /\ Len(fnOut[1].queries) >= 1
    /\ Len(fnOut[1].queries) <= fnIn[1].maxQueries

\* a reply of white space only gave one query
C17_Witness ==
  /\ Generated
  /\ fnIn[1].reply.ok
  /\ fnIn[1].reply.lines = <<Line("blank", " ")>>
  /\ Len(fnOut[1].queries) = 1

\* no line of the reply matches one of the two list patterns
NoLineMatches(reply) ==
  \A i \in 1..Len(trimLines(reply.lines)) :
    trimLines(reply.lines)[i].kind \notin {"numbered", "bullet"}

\* C18: when no line of the reply matches `<number>. <text>` or
\* `<bullet> <text>`, or the call of the backend fails, generateSearchQueries
\* returns the one-element sequence holding the original user query.
C18_FallsBackToUserQuery ==
  (Generated /\ (~fnIn[1].reply.ok \/ NoLineMatches(fnIn[1].reply)))
    => fnOut[1].queries = <<fnIn[1].query>>

-----------------------------------------------------------------------------
(* Claims about webSearch *)

\* a result as the adapter is to return it: a URL that starts with http and a
\* title of its own that is not empty
Qualified(result) ==
  /\ result.url.scheme = "http"
  /\ result.title # ""
  /\ result.title # "url"

\* C19: every result webSearch returns has a URL that starts with "http" and
\* a non-empty title, the results of the backend that lack either having been
\* discarded, and at most `count` results are returned.
C19_ResultsQualified ==
  fnOut # <<>> =>
    \A results \in {fnOut[1].enhanced, fnOut[1].basic} :
      /\ Len(results) <= fnIn[1].count
      /\ \A i \in 1..Len(results) : Qualified(results[i])

-----------------------------------------------------------------------------
(* Claims about the evaluation phase *)

EvaluationEvents ==
  { i \in 1..Len(events) :
      events[i] \in {PhaseEv("thinking_start", "evaluation"),
                     PhaseEv("thinking_update", "evaluation")} }

Evaluated == EvaluationEvents # {}

\* the evaluation starts after a response_complete only
EvaluationAfterResponse ==
  \A i \in EvaluationEvents :
    \E j \in 1..(i - 1) : events[j].event = "response_complete"

\* the step of the evaluation leaves the answer and the stream as they were
EvaluationStep ==
  (pc # "save" /\ pc' = "save") =>
     /\ finalAnswer' = finalAnswer
     /\ streamed' = streamed
     /\ session' = session

\* what is stored for the turn is the answer the evaluation was given, its
\* thinking blocks cut and trimmed
SaveStep ==
  (pc = "save" /\ pc' # "save" /\ session' # session) =>
     /\ Len(session'.messages) = Len(session.messages) + 2
     /\ Last(session'.messages).role = "assistant"
     /\ Last(session'.messages).content = Trim(StripThinking(finalAnswer))

-----------------------------------------------------------------------------
(* Claims about timeouts *)

\* C21: every streamed request at last emits a terminal event, complete or
\* error, and closes the stream, even when a backend stops answering at a
\* suspend point, after the response headers have arrived included, since a
\* timeout bounds every suspend point.
C21_EventuallyTerminal == <>(netCall.terminal # "none")

-----------------------------------------------------------------------------
(* Claims about concurrent upserts *)

\* the items of a collection, as a set
ItemsOf(longTerm) == { longTerm[i] : i \in 1..Len(longTerm) }

\* the save of a call writes the copy the call has loaded and added to: what
\* others have persisted since the call loaded is not kept
SaveOverwrites ==
  \A c \in Callers :
    (upserts[c].phase = "running" /\ upserts'[c].phase = "returned"
       /\ upserts'[c].result # <<>>) =>
      /\ memoryFile' = upserts[c].memory
      /\ \A item \in ItemsOf(memoryFile.longTerm) :
           item \notin ItemsOf(upserts[c].memory.longTerm)
             => item \notin ItemsOf(memoryFile'.longTerm)

\* as long as one caller alone has called, what its calls returned as
\* inserted is in the store
AloneKeepsAll ==
  \A c \in Callers :
    (upserts[c].phase = "returned"
       /\ \A d \in Callers \ {c} : upserts[d].phase = "idle")
      => ItemsOf(upserts[c].result) \subseteq ItemsOf(memoryFile.longTerm)

\* C22: two chat requests that both read, modify and write the persisted
\* memory collection can lose an update: the save of an upsert writes the copy
\* it loaded with its own additions, so that an item another upsert returned
\* as inserted in the meantime is gone from the store once both have finished.
C22_LastWriterWins ==
  /\ [][SaveOverwrites]_vars
  /\ [](AloneKeepsAll)

\* both upserts have finished without a failure, each returned an item as
\* inserted, and the item of one of them is not in the store
C22_Witness ==
  /\ memFailed = 0
  /\ \A c \in Callers : upserts[c].phase = "returned" /\ upserts[c].result # <<>>
  /\ \E c \in Callers :
       \E i \in 1..Len(upserts[c].result) :
         upserts[c].result[i] \notin ItemsOf(memoryFile.longTerm)

-----------------------------------------------------------------------------
(* Claims about the sessions and chat endpoints *)

\* C23: retrieving a session that has been deleted, or one whose id never
\* existed, fails with status 500 and does not create the session.
C23_MissingSessionFails ==
  (httpResponse.op = "get" /\ ~httpResponse.found) =>
     /\ httpResponse.status = 500
     /\ ~Exists(httpResponse.id)

\* the last request was a chat request with an empty message or without a
\* session id
InvalidChat(r) ==
  /\ r.op = "chat"
  /\ r.body.message = "empty" \/ r.body.sessionId = "none"

\* C24: a chat request with an empty message or a missing session id is
\* answered 4xx before anything is processed: no session is created or
\* changed, no backend is called and no event is streamed.
C24_InvalidChatRejected ==
  /\ [](InvalidChat(httpResponse) =>
          /\ httpResponse.status \in 400..499
          /\ ~httpResponse.handled
          /\ ~httpResponse.basicNext)
  /\ [][(httpResponse' # httpResponse /\ InvalidChat(httpResponse')) =>
          UNCHANGED <<sessionsDir, apiFaults, deletedIds>>]_vars

\* a chat request for a session that does not exist was rejected and the
\* session still does not exist
C24_Witness ==
  /\ InvalidChat(httpResponse)
  /\ httpResponse.body.sessionId = "id"
  /\ httpResponse.status = 400
  /\ ~httpResponse.found
  /\ ~Exists(httpResponse.id)
  /\ \E id \in SessionIds : Exists(id)

-----------------------------------------------------------------------------
(* Claims about the rounds of the streaming pipeline *)

SearchResultEvents == EventsNamed({"search_results"})

\* the results returned by the rounds up to event i
ReturnedBefore(i) ==
  LET earlier == { j \in SearchResultEvents : j < i } IN
  IF earlier = {} THEN 0
  ELSE events[CHOOSE j \in earlier : \A k \in earlier : k <= j].total

\* the events of a round stand together: the results of a query directly
\* follow its start, and the running total grows by what the round returned
RoundsInSequence ==
  /\ \A i \in SearchResultEvents :
       /\ i > 1
       /\ events[i - 1].event = "search_start"
       /\ events[i - 1].query = events[i].query
       /\ events[i].total = ReturnedBefore(i) + events[i].results
  /\ Len(allSearchResults) = ReturnedBefore(Len(events) + 1)

\* a round with a planned query after it decides on the accumulated total
DecisionOnTotal ==
  (/\ pc = "search_round"
   /\ searchRound < Len(searchQueries)
   /\ (searchRound' # searchRound \/ pc' # pc \/ continueLog' # continueLog)) =>
    LET total == Len(allSearchResults') IN
    /\ Len(continueLog') = Len(continueLog) + 1
    /\ Last(continueLog').resultCount = total
    /\ Last(continueLog').shouldContinue <=> total < 5
    /\ (pc' = "search_round" /\ searchRound' = searchRound + 1) <=> total < 5
    /\ total >= 5 => (pc' # "search_round" /\ searchRound' = searchRound)

\* C25: in the streaming pipeline the continuation decision after round i,
\* for i smaller than the number of planned queries, is taken with complexity
\* high on the total number of results returned by rounds 1..i: the next
\* round is issued if and only if that total is less than 5; the rounds run
\* one after the other, never at the same time.
C25_DecisionOnAccumulatedTotal ==
  /\ []RoundsInSequence
  /\ [][DecisionOnTotal]_vars

\* two rounds returned two results each, and the second decision, on the
\* total of four, let the third round start
C25_Witness ==
  /\ Len(continueLog) = 2
  /\ continueLog[2].resultCount = 4
  /\ continueLog[2].shouldContinue
  /\ searchRound = 3
  /\ pc = "search_round"
  /\ Cardinality(SearchResultEvents) = 2

-----------------------------------------------------------------------------
(* Claims about executeSearches *)

\* what the call of webSearch for a plan step hands back to the loop
HandedBack(step, count) ==
  IF step.rejects THEN <<>> ELSE webSearch(step.answers, count)

RECURSIVE Accumulated(_, _)
Accumulated(plan, count) ==
  IF plan = <<>> THEN <<>>
  ELSE HandedBack(plan[1], count) \o Accumulated(Tail(plan), count)

\* kept is the list without every entry whose lower-cased URL stood earlier
FirstOccurrences(found, kept) ==
  LET first == { i \in 1..Len(found) :
                   \A j \in 1..(i - 1) :
                     toLowerCase(found[j].url) # toLowerCase(found[i].url) }
      place(i) == Cardinality({ j \in first : j <= i })
  IN /\ Len(kept) = Cardinality(first)
     /\ \A i \in first : kept[place(i)] = found[i]

\* C26: executeSearches calls the search once per query, in plan order, goes
\* on to the next query when a call fails or returns nothing, and returns the
\* accumulated results without the entries whose lower-cased URL occurred
\* before (first occurrence kept, order kept), with the count of the results
\* before the duplicates were removed.
C26_ExecuteSearches ==
  fnOut # <<>> =>
    LET plan == fnIn[1].plan
        out == fnOut[1]
        all == Accumulated(plan, fnIn[1].count)
        answered == SelectSeq(plan, LAMBDA step :
                                Len(HandedBack(step, fnIn[1].count)) > 0)
    IN /\ out.calls = [i \in 1..Len(plan) |-> plan[i].query]
       /\ out.totalSources = Len(all)
       /\ FirstOccurrences(all, out.allSources)
       /\ out.searchResults =
            [i \in 1..Len(answered) |->
               [query |-> answered[i].query,
                results |-> HandedBack(answered[i], fnIn[1].count),
                count |-> Len(HandedBack(answered[i], fnIn[1].count))]]

\* the first query was rejected, the second returned one URL twice in
\* different letter case
C26_Witness ==
  /\ fnOut # <<>>
  /\ Len(fnIn[1].plan) = 2
  /\ fnIn[1].plan[1].rejects
  /\ Len(fnOut[1].calls) = 2
  /\ fnOut[1].totalSources = NSites + 1
  /\ Len(fnOut[1].allSources) = NSites

-----------------------------------------------------------------------------
(* Claims about the URL variants of webSearch *)

\* returned and requested are what a search does when the variants in
\* accepted are the ones whose answer it takes: the first of them is returned
\* and nothing is requested after it
FirstAccepted(accepted, derived, returned, requested) ==
  IF accepted = {}
    THEN /\ returned = <<>>
         /\ requested = <<1, 2, 3>>
    ELSE LET first == CHOOSE v \in accepted : \A w \in accepted : v <= w IN
         /\ returned = derived[first]
         /\ requested = [i \in 1..first |-> i]

\* C27: webSearch requests its URL variants one at a time in their fixed
\* order and returns the results of the first variant that answers with a
\* success status, a JSON body and a non-empty list of the results the search
\* keeps of it (URL starting with http, cut to count; in server.js a title
\* too); no variant is requested after that one, a failing variant is
\* skipped, and without such a variant the result is the empty list.
C27_FirstQualifyingVariant ==
  fnOut # <<>> =>
    LET answers == fnIn[1].answers
        count == fnIn[1].count
        derived == [v \in 1..3 |-> resultsOf(answers[v].results, count)]
        derivedBasic == [v \in 1..3 |-> resultsOfBasic(answers[v].results, count)]
    IN /\ FirstAccepted({ v \in 1..3 : answers[v].ok /\ derived[v] # <<>> },
                        derived, fnOut[1].enhanced, fnOut[1].requested)
       /\ FirstAccepted({ v \in 1..3 : answers[v].ok /\ derivedBasic[v] # <<>> },
                        derivedBasic, fnOut[1].basic, fnOut[1].requestedBasic)

\* C27 as stated: the variant accepted is the first that answers with a
\* success status, a JSON body and a non-empty result list
C27_FirstNonEmptyVariant ==
  fnOut # <<>> =>
    LET answers == fnIn[1].answers
        count == fnIn[1].count
        derived == [v \in 1..3 |-> resultsOf(answers[v].results, count)]
        derivedBasic == [v \in 1..3 |-> resultsOfBasic(answers[v].results, count)]
        nonEmpty == { v \in 1..3 : answers[v].ok /\ answers[v].results # <<>> }
    IN /\ FirstAccepted(nonEmpty, derived, fnOut[1].enhanced, fnOut[1].requested)
       /\ FirstAccepted(nonEmpty, derivedBasic, fnOut[1].basic,
                        fnOut[1].requestedBasic)

\* the first variant failed, the second answered nothing, the third was
\* requested last and its results were returned
C27_Witness ==
  /\ fnOut # <<>>
  /\ ~fnIn[1].answers[1].ok
  /\ fnIn[1].answers[2] = Answer(TRUE, <<>>)
  /\ fnOut[1].requested = <<1, 2, 3>>
  /\ fnOut[1].enhanced # <<>>
  /\ fnOut[1].enhanced = fnOut[1].basic

-----------------------------------------------------------------------------
(* Claims about the search decision *)

\* the query, written in lower case, holds a recency keyword
ContainsKeyword(query) ==
  \E i \in 1..Len(query) : query[i].text \in {"latest", "know"}

\* C28: if the lower-cased user query contains a keyword of the keyword set,
\* determineSearchNeed returns needsSearch = true at once, without a call of
\* the generation backend, with a confidence above that of every decision
\* taken from a reply of the backend and above that of the failure default.
C28_KeywordDecidesAtOnce ==
  (fnOut # <<>> /\ ContainsKeyword(fnIn[1].query)) =>
    /\ fnOut[1].decision.needsSearch
    /\ fnOut[1].generateCalls = 0
    /\ ~fnOut[1].decision.hasThoughts
    /\ \A reply \in DecisionReplies :
         fnOut[1].decision.confidence > determineSearchNeed(FALSE, reply).confidence

\* a keyword written in capitals inside a longer word, with a backend that
\* would have failed
C28_Witness ==
  /\ fnOut # <<>>
  /\ fnIn[1].query = <<Word("tell", FALSE), Word("know", TRUE)>>
  /\ fnIn[1].reply = FailedReply
  /\ fnOut[1].decision.needsSearch
  /\ fnOut[1].decision.confidence = 8

\* the backend call of the search decision failed in this request
DecisionFailed == \E i \in 1..Len(failed) : failed[i] = "search_decision"

SearchPositions ==
  {"search_planning", "search_round", "content_processing", "grounded_chat",
   "grounded_read"}

NoSearchDone ==
  /\ ~searchDecision.needsSearch
  /\ ~usedSearch
  /\ pc \notin SearchPositions
  /\ EventsNamed({"search_start", "search_results", "search_complete"}) = {}
  /\ searchQueries = <<>>
  /\ allSearchResults = <<>>
  /\ sources = <<>>

\* the failing decision hands the request to the response phase
FailedDecisionStep ==
  (pc = "search_decision" /\ failed' # failed) =>
    /\ Last(failed') = "search_decision"
    /\ pc' = "phase3"

\* C29: if the user query matches no keyword and the backend call of the
\* search decision fails or times out, determineSearchNeed returns
\* needsSearch = false and the request goes on to response generation
\* without any search round.
C29_FailedDecisionSkipsSearch ==
  /\ [](DecisionFailed => NoSearchDone)
  /\ [][FailedDecisionStep]_vars

\* a request whose search decision failed, answered without a search
C29_Witness ==
  /\ DecisionFailed
  /\ Finished
  /\ EventsNamed({"response_complete"}) # {}
  /\ EventsNamed({"complete"}) # {}
  /\ ~usedSearch

-----------------------------------------------------------------------------
(* Claims about content processing *)

\* the candidates of content processing
Candidates == Take(allSearchResults, TopResults)

\* the join of the fetches: one outcome per candidate, the sources are the
\* candidates with enough text, in their order and under their own numbers,
\* and the request goes on whatever the outcomes are
JoinAllOutcomes ==
  (pc = "content_processing" /\ pc' # pc) =>
    LET qualifying == { i \in 1..Len(Candidates) :
                          contentResults'[i] > MinContentLength }
    IN /\ Len(contentResults') = Len(Candidates)
       /\ Len(sources') = Cardinality(qualifying)
       /\ \A k \in 1..Len(sources') :
            /\ sources'[k].idx \in qualifying
            /\ sources'[k].url = Candidates[sources'[k].idx].url
            /\ k > 1 => sources'[k - 1].idx < sources'[k].idx
       /\ pc' = IF qualifying = {} THEN "phase3" ELSE "grounded_chat"
       /\ EventsNamed({"error"})' = EventsNamed({"error"})
       /\ finalAnswer' = finalAnswer

\* the answer is generated from the sources only when there are sources
GroundedOnlyWithSources ==
  pc \in {"grounded_chat", "grounded_read"} => sources # <<>>

\* C30: content processing fetches the candidate URLs together and joins
\* them with all-outcomes semantics: the sources of the turn are exactly the
\* candidates whose fetch brought text above the minimum length, in candidate
\* order, each numbered by its position among the candidates; a failed or
\* too-short fetch is dropped without failing the batch, and with no
\* qualifying candidate the request falls through to direct generation
\* with no sources.
C30_ContentJoin ==
  /\ [][JoinAllOutcomes]_vars
  /\ []GroundedOnlyWithSources

\* the fetch of the first candidate failed and the second candidate became
\* the only source, under its number 2
C30_Witness ==
  /\ Len(contentResults) >= 2
  /\ contentResults[1] = 0
  /\ Len(sources) >= 1
  /\ sources[1].idx = 2
  /\ pc = "grounded_chat"

-----------------------------------------------------------------------------
(* Claims about fetchAndClean *)

\* C31: fetchAndClean never throws: on a timeout, a network error, a status
\* that is not a success or a content type that is not HTML it returns the
\* empty text, and the text it returns on success is at most the maximum
\* number of characters long (20000, in server.js 15000).
C31_FetchNeverThrows ==
  fnOut # <<>> =>
    /\ ~fnOut[1].enhanced.threw
    /\ ~fnOut[1].basic.threw
    /\ fnIn[1].connect # "html" =>
         (fnOut[1].enhanced.length = 0 /\ fnOut[1].basic.length = 0)
    /\ fnOut[1].enhanced.length <= MaxContentLength
    /\ fnOut[1].basic.length <= MaxContentLengthBasic
    /\ fnOut[1].enhanced.length <= fnIn[1].length
    /\ fnOut[1].basic.length <= fnIn[1].length

\* a page longer than the maximum was cut to it
C31_Witness ==
  /\ fnOut # <<>>
  /\ fnIn[1] = PageFetch("html", FALSE, MaxContentLength + 1)
  /\ fnOut[1].enhanced = Outcome(FALSE, MaxContentLength)
  /\ fnOut[1].basic = Outcome(FALSE, MaxContentLengthBasic)

-----------------------------------------------------------------------------
(* Claims about the Thought sequence *)

StartsWith(later, earlier) ==
  /\ Len(earlier) <= Len(later)
  /\ SubSeq(later, 1, Len(earlier)) = earlier

\* the place of a phase in the run of a request
PhaseRank(about) ==
  CASE about = "analysis" -> 1
    [] about = "search_decision" -> 2
    [] about = "search_planning" -> 3
    [] about = "search_round" -> 4
    [] about = "response_planning" -> 5
    [] about = "response" -> 6
    [] about = "evaluation" -> 7

InPhaseOrder ==
  \A i, j \in 1..Len(allThoughts) :
    i < j => PhaseRank(allThoughts[i].about) <= PhaseRank(allThoughts[j].about)

\* C32: the Thought sequence of a request is append-only and ordered by
\* emission: at every step the earlier sequence is a prefix of the later
\* one, so no Thought is removed, changed or reordered, and the Thoughts stand
\* in the order in which the phases that produced them ran.
C32_ThoughtsAppendOnly ==
  /\ [][StartsWith(allThoughts', allThoughts)]_vars
  /\ []InPhaseOrder

\* thoughts of the analysis, of a search round, of the planning, of the
\* answer stream and of the evaluation, one after the other
C32_Witness ==
  /\ Len(allThoughts) >= 4
  /\ allThoughts[1].about = "analysis"
  /\ \E i \in 1..Len(allThoughts) : allThoughts[i].about = "search_round"
  /\ \E i \in 1..Len(allThoughts) : allThoughts[i] = Thought("reasoning", "response")
  /\ Last(allThoughts).about = "evaluation"

-----------------------------------------------------------------------------
(* Claims about a client that disconnects *)

\* the disconnection itself changes nothing the handler reads or writes
DisconnectUnseen ==
  (clientGone' # clientGone) => UNCHANGED <<pipeVars, fnVars, memVars, netCall, sessVars>>

\* after the disconnection an error comes only from a backend or the store,
\* the handler can always take its next step, and a request without such a
\* failure ends with complete and its turn saved
GoneIsNormal ==
  clientGone =>
    /\ EventsNamed({"error"}) # {} => failed # <<>>
    /\ pc # "http500"
    /\ ~Finished => ENABLED Next
    /\ (Finished /\ failed = <<>>) =>
         /\ EndsWith("complete")
         /\ Len(session.messages) >= 2
         /\ Last(session.messages).role = "assistant"

\* C33: a write to the event channel that fails because the client has
\* disconnected is treated as normal: the failure is absorbed, raises no error
\* in the pipeline, causes no error event and no error status, and the
\* request proceeds to its normal end.
C33_DisconnectAbsorbed ==
  /\ [][DisconnectUnseen]_vars
  /\ []GoneIsNormal

\* the client left during the search rounds and the request still ended with
\* complete
C33_Witness ==
  /\ clientGone
  /\ Finished
  /\ failed = <<>>
  /\ usedSearch
  /\ EndsWith("complete")
  /\ EventsNamed({"error"}) = {}

-----------------------------------------------------------------------------
(* Claims about the session transcript *)

\* where the handler stands once the turn has been saved
AfterSave == {"title", "memory", "complete"}

\* the two messages of the turn, after the ones that were there
TurnAppended ==
  /\ Len(session'.messages) = Len(session.messages) + 2
  /\ SubSeq(session'.messages, 1, Len(session.messages)) = session.messages
  /\ session'.messages[Len(session.messages) + 1].role = "user"
  /\ session'.messages[Len(session.messages) + 2].role = "assistant"

TranscriptStep ==
  \* the transcript changes only when the turn is saved, by the two messages
  /\ session'.messages # session.messages =>
       (pc = "save" /\ pc' \in AfterSave /\ TurnAppended)
  \* complete is sent only after the save, error only before it
  /\ (pc \notin AfterSave /\ pc' \in AfterSave) =>
       (pc = "save" /\ session'.messages # session.messages)
  /\ (events' # events /\ Last(events').event = "complete") => pc \in AfterSave
  /\ (events' # events /\ Last(events').event = "error") => pc \notin AfterSave
  /\ pc \in AfterSave =>
       (pc' \in AfterSave \/ (pc' = "done" /\ Last(events').event = "complete"))

\* C34: a streamed request appends exactly one user message followed by one
\* assistant message to the session transcript if and only if its stream ends
\* with complete; if the stream ends with error the persisted transcript is
\* unchanged; messages already in the transcript are never modified, removed
\* or reordered.
C34_TranscriptFrame == [][TranscriptStep]_vars

-----------------------------------------------------------------------------
(* Claims about the events of the answer *)

ResponseStarts == EventsNamed({"response_start"})
ResponseCompletes == EventsNamed({"response_complete"})

\* event i lies inside an open response: a start stands before it and no
\* complete stands between the two
InsideResponse(i) ==
  \E s \in ResponseStarts :
    /\ s < i
    /\ \A c \in ResponseCompletes : ~(s < c /\ c < i)

\* C35: in a streamed request every response_chunk event comes after a
\* response_start and before the response_complete that follows it, and at
\* most one pair of response_start and response_complete is emitted per
\* request, on the search path, on the direct path and on the fall-through
\* from the search to direct generation.
C35_OneResponsePair ==
  /\ \A i \in EventsNamed({"response_chunk"}) : InsideResponse(i)
  /\ \A c \in ResponseCompletes : InsideResponse(c)
  /\ Cardinality(ResponseStarts) <= 1
  /\ Cardinality(ResponseCompletes) <= 1

-----------------------------------------------------------------------------
(* Claims about the ids of a memory document *)

\* the ids of a document grow along its list and lie below its counter
WellNumbered(document) ==
  /\ \A i, j \in 1..Len(document.longTerm) :
       i < j => document.longTerm[i].id < document.longTerm[j].id
  /\ \A i \in 1..Len(document.longTerm) :
       document.longTerm[i].id < document.nextId

\* C36: in every persisted memory document, those written by interleaved
\* concurrent upserts and clears included, the item ids are pairwise distinct
\* and increasing in sequence order, and nextId is greater than every id of
\* the collection.
C36_DocumentWellNumbered == WellNumbered(memoryFile)

\* two calls have both saved an item under the same id, by overlapping or
\* around a clear, and the document holds the item of the later save
C36_Witness ==
  /\ \A c \in Callers : upserts[c].phase = "returned" /\ upserts[c].result # <<>>
  /\ \E i, j \in 1..Len(idLog) : i < j /\ idLog[i] = idLog[j]
  /\ memFailed = 0
  /\ Len(memoryFile.longTerm) = 1
  /\ memoryFile.nextId = 2

-----------------------------------------------------------------------------
(* Claims about what retrieve leaves behind *)

\* C37: retrieve never changes the persisted memory collection: after any
\* call, whether it succeeds, fails or times out, and also when the persisted
\* document cannot be read, the stored items and nextId are the same as
\* before the call.
C37_RetrieveLeavesStore ==
  [][fnOut' # fnOut => memoryFile' = memoryFile]_vars

-----------------------------------------------------------------------------
(* Claims about the timeout of webSearch *)

\* C38: During a webSearch call every endpoint-variant request that is in
\* flight is covered by the call's timeout: the abort timer stays armed until
\* a variant has been accepted or all variants have been tried, so a variant
\* that never answers is cancelled when the timeout expires.
C38_VariantsCovered ==
  (netCall.phase # "none" /\ netCall.kind = "search" /\ InFlight)
    => netCall.timer = "armed"

-----------------------------------------------------------------------------
(* Claims about the store of the basic server *)

normalized(text) == toLowerCase(trim(text))

\* C39: In the basic server variant, after any sequence of
\* upsertLongTermMemory calls the store contains no two items whose contents
\* are equal after trimming and lower-casing, including when two candidates
\* with the same normalized content are supplied in the same call.
C39_NoNormalizedDuplicates ==
  \A i, j \in 1..Len(memoryFile.longTerm) :
    i # j => normalized(memoryFile.longTerm[i].content)
               # normalized(memoryFile.longTerm[j].content)

====
